---- MODULE Spec2Model ----
(***************************************************************************)
(* Model of the government-report RAG pipeline:                            *)
(*   QueryRouter      (src/src/query_router.py)                            *)
(*   RAGRetriever     (src/src/retriever.py)                               *)
(*   ResultAggregator (src/src/result_aggregator.py)                       *)
(*   GovernmentReportRAG.query / setup_system (src/main.py)                *)
(*                                                                         *)
(* Chinese province names and keywords are written in pinyin, since the    *)
(* module's strings are ASCII.  A query text is modelled by what the code  *)
(* observes of it: the vocabulary words that occur in it as substrings     *)
(* (kw) and the province names that occur in it, in order of first         *)
(* mention (mentions).                                                     *)
(***************************************************************************)
EXTENDS Integers, Sequences, FiniteSets, TLC

(***************************************************************************)
(* Bounds of the model                                                     *)
(***************************************************************************)
MaxMentions == 7      \* a query mentions at most this many provinces
MaxKw == 2            \* a query holds at most this many vocabulary words
SmallBatchSize == 3   \* the small configured batch_size (besides the default)

(***************************************************************************)
(* Generic helpers                                                         *)
(***************************************************************************)
Range(s) == {s[i] : i \in 1..Len(s)}

Min(a, b) == IF a <= b THEN a ELSE b

Max(a, b) == IF a >= b THEN a ELSE b

\* Python's s[:n] for n >= 0
Take(s, n) == SubSeq(s, 1, Min(Len(s), Max(n, 0)))

Reverse(s) == [i \in 1..Len(s) |-> s[Len(s) + 1 - i]]

RECURSIVE SumSeq(_)
SumSeq(s) == IF s = <<>> THEN 0 ELSE s[1] + SumSeq(Tail(s))

RECURSIVE Flatten(_)
Flatten(ss) == IF ss = <<>> THEN <<>> ELSE ss[1] \o Flatten(Tail(ss))

\* min(S) for a non-empty set of integers
MinOf(S) == CHOOSE x \in S : \A y \in S : x <= y

\* ceil(a / b) for b > 0
CeilDiv(a, b) == (a + b - 1) \div b

(***************************************************************************)
(* Static tables                                                           *)
(***************************************************************************)
\* config.PROVINCES, in its canonical order
PROVINCES ==
  << "Beijing", "Tianjin", "Hebei", "Shanxi", "Neimenggu", "Liaoning", "Jilin",
     "Heilongjiang", "Shanghai", "Jiangsu", "Zhejiang", "Anhui", "Fujian",
     "Jiangxi", "Shandong", "Henan", "Hubei", "Hunan", "Guangdong", "Guangxi",
     "Hainan", "Chongqing", "Sichuan", "Guizhou", "Yunnan", "Xizang", "Shaanxi",
     "Gansu", "Qinghai", "Ningxia", "Xinjiang" >>

ProvinceSet == Range(PROVINCES)

\* QUERY_CONFIG["batch_size"] as shipped
batch_size_default == 8

\* QueryRouter.province_groups["economic_zones"], in dict order
economic_zones ==
  << [region |-> "east",
      provinces |-> << "Beijing", "Tianjin", "Hebei", "Shanghai", "Jiangsu",
                       "Zhejiang", "Fujian", "Shandong", "Guangdong", "Hainan" >>],
     [region |-> "central",
      provinces |-> << "Shanxi", "Anhui", "Jiangxi", "Henan", "Hubei", "Hunan" >>],
     [region |-> "west",
      provinces |-> << "Neimenggu", "Guangxi", "Chongqing", "Sichuan", "Guizhou",
                       "Yunnan", "Xizang", "Shaanxi", "Gansu", "Qinghai",
                       "Ningxia", "Xinjiang" >>],
     [region |-> "northeast",
      provinces |-> << "Liaoning", "Jilin", "Heilongjiang" >>] >>

(***************************************************************************)
(* Query texts.  Words of the keyword tables, in pinyin:                   *)
(*   suoyou_shengfen 所有省份  ge_sheng 各省  31sheng 31省  quanguo 全国    *)
(*   quanbu_shengfen 全部省份  duibi 对比  bijiao 比较  chayi 差异          *)
(*   qubie 区别  yitong 异同  tongji 统计  huizong 汇总  zongjie 总结       *)
(*   fenxi 分析  shuliang 数量  zongji 总计  liechu 列出  lieju 列举        *)
(*   xiangxi 详细  juti 具体  shenru 深入  quanmian 全面                    *)
(*   suoyou 所有  quanbu 全部  bufen 部分  mouxie 某些  jige 几个           *)
(***************************************************************************)
\* the words a modelled query text is composed of
QueryVocabulary ==
  { "suoyou_shengfen", "ge_sheng", "quanguo", "quanbu_shengfen",
    "duibi", "bijiao", "chayi", "tongji", "huizong", "zongjie", "fenxi",
    "liechu", "xiangxi", "juti", "quanmian" }

\* word w, occurring in a text, makes keyword k a substring of the text
Covers(w, k) ==
  \/ w = k
  \/ w = "suoyou_shengfen" /\ k = "suoyou"
  \/ w = "quanbu_shengfen" /\ k = "quanbu"

\* Python's `keyword in query`
KeywordIn(k, q) == \E w \in q.kw : Covers(w, k)

\* Python's any(keyword in query for keyword in ks)
AnyKeyword(ks, q) == \E k \in ks : KeywordIn(k, q)

\* Python's `province in query`
ProvinceIn(p, q) == p \in Range(q.mentions)

\* [p for p in PROVINCES if p in query]
MentionedProvinces(q) == SelectSeq(PROVINCES, LAMBDA p : ProvinceIn(p, q))

(***************************************************************************)
(* QueryRouter: intent classification (query_router.py)                    *)
(***************************************************************************)
\* QueryRouter._identify_intent: the type and the mentioned provinces
\* (topics and actions do not influence planning and are left out)
IdentifyIntentBug(query) ==
  LET mentioned_provinces == MentionedProvinces(query)
  IN [type |->
        IF Len(mentioned_provinces) = 1 THEN "single_province"
        ELSE IF Len(mentioned_provinces) > 1 THEN "multi_province"
        ELSE IF AnyKeyword({"suoyou_shengfen", "ge_sheng", "31sheng", "quanguo"}, query)
          THEN "all_provinces"
        ELSE IF AnyKeyword({"duibi", "bijiao"}, query) THEN "comparison"
        ELSE IF AnyKeyword({"tongji", "huizong", "zongjie"}, query) THEN "statistics"
        ELSE "general",
      provinces |-> mentioned_provinces]

_identify_intent(query) ==
  LET mentioned_provinces == MentionedProvinces(query)
  IN [type |->
        IF AnyKeyword({"suoyou_shengfen", "ge_sheng", "31sheng", "quanguo"}, query)
          THEN "all_provinces"
        ELSE IF Len(mentioned_provinces) = 1 THEN "single_province"
        ELSE IF Len(mentioned_provinces) > 1 THEN "multi_province"
        ELSE IF AnyKeyword({"duibi", "bijiao"}, query) THEN "comparison"
        ELSE IF AnyKeyword({"tongji", "huizong", "zongjie"}, query) THEN "statistics"
        ELSE "general",
      provinces |-> mentioned_provinces]

\* QueryRouter._determine_scope
_determine_scope(query) ==
  IF AnyKeyword({"suoyou", "quanbu", "quanguo", "31sheng"}, query) THEN "comprehensive"
  ELSE IF AnyKeyword({"bufen", "mouxie", "jige"}, query) THEN "partial"
  ELSE "specific"

\* QueryRouter._determine_output_format
\* a variant that looks for the statistics keywords before the comparison ones
OutputFormatStatisticsFirst(query) ==
  IF AnyKeyword({"liechu", "lieju"}, query) THEN "province_list"
  ELSE IF AnyKeyword({"xiangxi", "juti", "shenru"}, query) THEN "detailed"
  ELSE IF AnyKeyword({"tongji", "huizong"}, query) THEN "statistics"
  ELSE IF AnyKeyword({"duibi", "bijiao"}, query) THEN "comparison"
  ELSE "province_list"

_determine_output_format(query) ==
  IF AnyKeyword({"liechu", "lieju"}, query) THEN "province_list"
  ELSE IF AnyKeyword({"xiangxi", "juti", "shenru"}, query) THEN "detailed"
  ELSE IF AnyKeyword({"duibi", "bijiao"}, query) THEN "comparison"
  ELSE IF AnyKeyword({"tongji", "huizong"}, query) THEN "statistics"
  ELSE "province_list"

\* QueryRouter._assess_complexity
_assess_complexity(query) ==
  LET complexity_indicators ==
        (IF AnyKeyword({"suoyou_shengfen", "31sheng", "quanguo"}, query) THEN 2 ELSE 0)
        + (IF AnyKeyword({"duibi", "fenxi", "tongji"}, query) THEN 1 ELSE 0)
        + (IF AnyKeyword({"xiangxi", "shenru", "quanmian"}, query) THEN 1 ELSE 0)
        + (IF Len(MentionedProvinces(query)) > 3 THEN 1 ELSE 0)
  IN IF complexity_indicators >= 3 THEN "high"
     ELSE IF complexity_indicators >= 1 THEN "medium"
     ELSE "low"

\* QueryRouter.analyze_query
analyze_query(query) ==
  [original_query |-> query,
   intent |-> _identify_intent(query),
   scope |-> _determine_scope(query),
   output_format |-> _determine_output_format(query),
   complexity |-> _assess_complexity(query)]

(***************************************************************************)
(* QueryRouter: batch planning                                             *)
(***************************************************************************)
NoRegion == "none"

\* a batch dict; a batch without "provinces"/"region" keys carries <<>>/NoRegion
Batch(type, region, provinces, query) ==
  [type |-> type, region |-> region, provinces |-> provinces, query |-> query]

\* the text of a group batch's query: "请列出{region}各省份的主要工作目标：..."
GroupBatchQuery(provinces) == [kw |-> {"liechu", "ge_sheng"}, mentions |-> provinces]

\* the text of a chunk batch's query: "请列出以下省份的主要工作目标：..."
ChunkBatchQuery(provinces) == [kw |-> {"liechu"}, mentions |-> provinces]

\* a variant that leaves out the last region group
GroupBatchesWithoutLast(query) ==
  [i \in 1..(Len(economic_zones) - 1) |->
     Batch("province_group", economic_zones[i].region, economic_zones[i].provinces,
           GroupBatchQuery(economic_zones[i].provinces))]

\* QueryRouter._create_province_group_batches
_create_province_group_batches(query) ==
  [i \in 1..Len(economic_zones) |->
     Batch("province_group", economic_zones[i].region, economic_zones[i].provinces,
           GroupBatchQuery(economic_zones[i].provinces))]

\* a variant that leaves out the last, shorter batch
ChunkBatchesDropLast(query, provinces, batch_size) ==
  [j \in 1..(Len(provinces) \div batch_size) |->
     Batch("province_chunk", NoRegion,
           SubSeq(provinces, (j - 1) * batch_size + 1, j * batch_size),
           ChunkBatchQuery(SubSeq(provinces, (j - 1) * batch_size + 1, j * batch_size)))]

\* QueryRouter._create_province_chunk_batches:
\* for i in range(0, len(provinces), batch_size): provinces[i:i + batch_size]
_create_province_chunk_batches(query, provinces, batch_size) ==
  [j \in 1..CeilDiv(Len(provinces), batch_size) |->
     LET lo == (j - 1) * batch_size + 1
         hi == Min(j * batch_size, Len(provinces))
         batch_provinces == SubSeq(provinces, lo, hi)
     IN Batch("province_chunk", NoRegion, batch_provinces,
              ChunkBatchQuery(batch_provinces))]

\* a variant that chunks every query naming more than two provinces
BatchStrategyChunkAboveTwo(intent, complexity) ==
  IF intent.type = "all_provinces" /\ complexity = "high" THEN "province_groups"
  ELSE IF intent.type = "all_provinces" THEN "single_batch"
  ELSE IF Len(intent.provinces) > 2 THEN "province_chunks"
  ELSE "single_query"

\* a variant that groups every all_provinces query, whatever its complexity
BatchStrategyAlwaysGroups(intent, complexity) ==
  IF intent.type = "all_provinces" THEN "province_groups"
  ELSE IF Len(intent.provinces) > 5 THEN "province_chunks"
  ELSE "single_query"

\* the if / elif chain of create_query_plan
BatchStrategy(intent, complexity) ==
  IF intent.type = "all_provinces" /\ complexity = "high" THEN "province_groups"
  ELSE IF intent.type = "all_provinces" THEN "single_batch"
  ELSE IF Len(intent.provinces) > 5 THEN "province_chunks"
  ELSE "single_query"

\* QueryRouter.create_query_plan
create_query_plan(query_analysis, batch_size) ==
  LET intent == query_analysis.intent
      complexity == query_analysis.complexity
      original == query_analysis.original_query
      strategy == BatchStrategy(intent, complexity)
      batches ==
        CASE strategy = "province_groups" -> _create_province_group_batches(original)
          [] strategy = "single_batch" ->
               << Batch("all_provinces", NoRegion, <<>>, original) >>
          [] strategy = "province_chunks" ->
               _create_province_chunk_batches(original, intent.provinces, batch_size)
          [] OTHER -> << Batch("direct", NoRegion, <<>>, original) >>
  IN [query_type |-> intent.type,
      batch_strategy |-> strategy,
      batches |-> batches,
      expected_provinces |-> intent.provinces,
      output_format |-> query_analysis.output_format]

(***************************************************************************)
(* Document chunks and the vector store (data_processor.py,                *)
(* vector_store.py).  A chunk's content is modelled by its length, its     *)
(* number of whitespace-separated words and the identity of its first 50   *)
(* characters (head) and of the rest (tail).                               *)
(***************************************************************************)
\* DocumentChunk(...)
DocumentChunk(id, province, content, content_len, words, chunk_type, char_count, source, start_pos, chunk_id) ==
  [id |-> id, province |-> province, content |-> content,
   content_len |-> content_len, words |-> words, chunk_type |-> chunk_type,
   char_count |-> char_count, source |-> source, start_pos |-> start_pos,
   chunk_id |-> chunk_id, truncated |-> FALSE]

NoFilter == "none"

\* VectorStore.search: `ranking` is the index's nearest-first order of the
\* stored chunks for the query (<<>> when the index is not loaded or the
\* query could not be encoded); the similarity scores are not read by callers
RECURSIVE SearchScan(_, _, _, _, _)
SearchScan(cands, top_k, province_filter, chunk_type_filter, results) ==
  IF cands = <<>> THEN results
  ELSE LET chunk == cands[1]
       IN IF \/ (province_filter # NoFilter /\ chunk.province # province_filter)
             \/ (chunk_type_filter # NoFilter /\ chunk.chunk_type # chunk_type_filter)
          THEN SearchScan(Tail(cands), top_k, province_filter, chunk_type_filter, results)
          ELSE IF Len(results) + 1 >= top_k THEN Append(results, chunk)
          ELSE SearchScan(Tail(cands), top_k, province_filter, chunk_type_filter,
                          Append(results, chunk))

search(chunks, ranking, top_k, province_filter, chunk_type_filter) ==
  LET ntotal == Len(ranking)
      search_k == Min(Max(top_k * 4, 200), ntotal)
      cands == [i \in 1..search_k |-> chunks[ranking[i]]]
  IN SearchScan(cands, top_k, province_filter, chunk_type_filter, <<>>)

(***************************************************************************)
(* RAGRetriever (retriever.py)                                             *)
(***************************************************************************)
RetrievalResult(chunks, provinces, total_chars, query_type, retrieval_strategy) ==
  [chunks |-> chunks, provinces |-> provinces, total_chars |-> total_chars,
   query_type |-> query_type, retrieval_strategy |-> retrieval_strategy]

\* sum(chunk.char_count for chunk in chunks)
TotalChars(chunks) == SumSeq([i \in 1..Len(chunks) |-> chunks[i].char_count])

\* set(chunk.province for chunk in chunks)
ChunkProvinces(chunks) == {chunks[i].province : i \in 1..Len(chunks)}

\* a result whose provinces and total_chars are computed from its chunks
ResultOf(chunks, query_type, retrieval_strategy) ==
  RetrievalResult(chunks, ChunkProvinces(chunks), TotalChars(chunks), query_type,
                  retrieval_strategy)

\* a result of the per-province loop: provinces_found beside the chunks
FoundResult(r, query_type, retrieval_strategy) ==
  RetrievalResult(r.chunks, r.found, TotalChars(r.chunks), query_type, retrieval_strategy)

\* RAGRetriever.identify_query_intent: later assignments override earlier ones
identify_query_intent(query) ==
  LET mentioned_provinces == MentionedProvinces(query)
      t1 == IF AnyKeyword({"suoyou_shengfen", "quanbu_shengfen", "ge_sheng",
                           "31sheng", "quanguo"}, query)
            THEN "all_provinces" ELSE "general"
      t2 == IF mentioned_provinces = <<>> THEN t1
            ELSE IF Len(mentioned_provinces) = 1 THEN "single_province"
            ELSE "multi_province"
      t3 == IF AnyKeyword({"duibi", "bijiao", "chayi", "qubie", "yitong"}, query)
            THEN "comparison" ELSE t2
      t4 == IF AnyKeyword({"tongji", "shuliang", "zongji", "huizong", "fenxi"}, query)
            THEN "statistics" ELSE t3
  IN [type |-> t4, provinces |-> mentioned_provinces]

\* the per-province loop shared by the province-based retrievals:
\* for each province, search top_k = quota * factor filtered to the province
\* and keep province_chunks[:quota]; provinces_found gets the province of
\* every kept chunk
KeptWith(kept, province, top_k, rest) ==
  [chunks |-> kept \o rest.chunks,
   found |-> (IF kept = <<>> THEN {} ELSE {province}) \cup rest.found,
   searches |-> << [province_filter |-> province, top_k |-> top_k] >> \o rest.searches]

\* a variant that keeps every chunk the search returned
KeepAll(province_chunks, top_k_per_province) == province_chunks

\* province_chunks[:top_k_per_province]
KeepQuota(province_chunks, top_k_per_province) == Take(province_chunks, top_k_per_province)

RECURSIVE PerProvince(_, _, _, _, _, _)
PerProvince(chunks, ranking, provinces, quota, factor, known) ==
  IF provinces = <<>> THEN [chunks |-> <<>>, found |-> {}, searches |-> <<>>]
  ELSE LET province == provinces[1]
           rest == PerProvince(chunks, ranking, Tail(provinces), quota, factor, known)
       IN IF province \notin known THEN rest
          ELSE KeptWith(KeepQuota(search(chunks, ranking, quota * factor, province,
                                         NoFilter),
                                  quota),
                        province, quota * factor, rest)

\* the RetrievalResult built after the loop, beside the searches the loop made
LoopRetrieval(r, query_type, retrieval_strategy) ==
  [result |-> FoundResult(r, query_type, retrieval_strategy), searches |-> r.searches]

\* the result of a single search, beside that search
SearchRetrieval(top_k, found, query_type, retrieval_strategy) ==
  [result |-> ResultOf(found, query_type, retrieval_strategy),
   searches |-> << [province_filter |-> NoFilter, top_k |-> top_k] >>]

\* the loop of retrieve_for_all_provinces over self.provinces
AllProvincesRetrieval(chunks, ranking, config) ==
  LoopRetrieval(PerProvince(chunks, ranking, PROVINCES,
                            config.all_provinces.top_k_per_province, 4, ProvinceSet),
                "all_provinces", "province_based")

\* RAGRetriever.retrieve_for_all_provinces
retrieve_for_all_provinces(chunks, ranking, config) ==
  AllProvincesRetrieval(chunks, ranking, config).result

\* the quota retrieve_for_specific_provinces reads from the configuration
SpecificQuota(config, provinces) ==
  IF Len(provinces) = 1 THEN config.single_province.top_k_per_province
  ELSE config.multi_province.top_k_per_province

\* the loop of retrieve_for_specific_provinces, which skips unknown provinces
SpecificProvincesRetrieval(chunks, ranking, config, provinces) ==
  LoopRetrieval(PerProvince(chunks, ranking, provinces, SpecificQuota(config, provinces),
                            3, ProvinceSet),
                "specific_provinces", "targeted")

\* RAGRetriever.retrieve_for_specific_provinces
retrieve_for_specific_provinces(chunks, ranking, config, provinces) ==
  SpecificProvincesRetrieval(chunks, ranking, config, provinces).result

\* the two branches of retrieve_for_comparison
ComparisonRetrieval(chunks, ranking, config, provinces) ==
  IF provinces # <<>>
  THEN LoopRetrieval(PerProvince(chunks, ranking, provinces,
                                 config.comparison.top_k_per_province, 3,
                                 Range(provinces)),
                     "comparison", "comparative")
  ELSE SearchRetrieval(config.comparison.max_total,
                       search(chunks, ranking, config.comparison.max_total, NoFilter,
                              NoFilter),
                       "comparison", "comparative")

\* RAGRetriever.retrieve_for_comparison
retrieve_for_comparison(chunks, ranking, config, provinces) ==
  ComparisonRetrieval(chunks, ranking, config, provinces).result

\* RAGRetriever.retrieve_by_topic
retrieve_by_topic(chunks, ranking, config, chunk_type) ==
  ResultOf(search(chunks, ranking, config.topic.top_k, NoFilter, chunk_type),
           "topic", "topic_based")

\* list.sort(key=chunk_id): stable, ascending
RECURSIVE InsertByChunkId(_, _)
InsertByChunkId(sorted, c) ==
  IF sorted = <<>> THEN << c >>
  ELSE IF sorted[Len(sorted)].chunk_id <= c.chunk_id THEN Append(sorted, c)
  ELSE Append(InsertByChunkId(SubSeq(sorted, 1, Len(sorted) - 1), c), sorted[Len(sorted)])

RECURSIVE SortByChunkId(_)
SortByChunkId(cs) ==
  IF cs = <<>> THEN <<>>
  ELSE InsertByChunkId(SortByChunkId(SubSeq(cs, 1, Len(cs) - 1)), cs[Len(cs)])

\* same_doc_chunks[start_idx:end_idx] without the chunk at target_index
AdjacentWindow(same_doc_chunks, target_index, start_idx, end_idx) ==
  SelectSeq([k \in 1..(end_idx - start_idx + 1) |->
               [i |-> start_idx + k - 1, c |-> same_doc_chunks[start_idx + k - 1]]],
            LAMBDA e : e.i # target_index)

\* a variant that takes one more chunk on each side
AdjacentAtWider(same_doc_chunks, hits, window) ==
  IF hits = {} THEN <<>>
  ELSE AdjacentWindow(same_doc_chunks, MinOf(hits),
                      Max(1, MinOf(hits) - window - 1),
                      Min(Len(same_doc_chunks), MinOf(hits) + window + 1))

\* the neighbours of the first stored chunk with the content and start_pos
\* of `chunk` (positions are 1-based here)
AdjacentAt(same_doc_chunks, hits, window) ==
  IF hits = {} THEN <<>>
  ELSE AdjacentWindow(same_doc_chunks, MinOf(hits),
                      Max(1, MinOf(hits) - window),
                      Min(Len(same_doc_chunks), MinOf(hits) + window))

AdjacentIn(same_doc_chunks, chunk, window) ==
  AdjacentAt(same_doc_chunks,
             {i \in 1..Len(same_doc_chunks) :
                /\ same_doc_chunks[i].content = chunk.content
                /\ same_doc_chunks[i].start_pos = chunk.start_pos},
             window)

\* RAGRetriever.get_adjacent_chunks
get_adjacent_chunks(chunks, chunk, window) ==
  AdjacentIn(SortByChunkId(SelectSeq(chunks, LAMBDA c : c.source = chunk.source
                                                         /\ c.province = chunk.province)),
             chunk, window)

\* (chunk.source, chunk.start_pos, chunk.content[:50])
ChunkKey(chunk) == << chunk.source, chunk.start_pos, chunk.content.head >>

\* the adjacency loop of smart_retrieve's general branch: a candidate is
\* appended when its key is not in seen_chunks, that is, when it is neither
\* in the set the loop started with nor the key of an earlier candidate
FreshPlaces(acc, cands) ==
  SelectSeq([i \in 1..Len(cands) |-> i],
            LAMBDA i : /\ ChunkKey(cands[i]) \notin acc.seen
                       /\ \A j \in 1..(i - 1) : ChunkKey(cands[j]) # ChunkKey(cands[i]))

PickAt(cands, places) == [k \in 1..Len(places) |-> cands[places[k]]]

AddUnseen(acc, cands) ==
  [enhanced |-> acc.enhanced \o PickAt(cands, FreshPlaces(acc, cands)),
   seen |-> acc.seen \cup {ChunkKey(cands[i]) : i \in 1..Len(cands)}]

AdjacentChunks(adj) == [k \in 1..Len(adj) |-> adj[k].c]

\* what one iteration of the loop looks at: the chunk, then its neighbours
ChunkWithAdjacent(chunks, chunk) ==
  << chunk >> \o AdjacentChunks(get_adjacent_chunks(chunks, chunk, 1))

\* the candidates of the iterations lo..hi, in order
RECURSIVE LoopCandidates(_, _, _, _)
LoopCandidates(chunks, primary_chunks, lo, hi) ==
  IF lo > hi THEN <<>>
  ELSE IF lo = hi THEN ChunkWithAdjacent(chunks, primary_chunks[lo])
  ELSE LoopCandidates(chunks, primary_chunks, lo, (lo + hi) \div 2)
         \o LoopCandidates(chunks, primary_chunks, ((lo + hi) \div 2) + 1, hi)

EnhanceWithAdjacent(chunks, primary_chunks, acc) ==
  AddUnseen(acc, LoopCandidates(chunks, primary_chunks, 1, Len(primary_chunks))).enhanced

(***************************************************************************)
(* RAGRetriever._truncate_results                                          *)
(***************************************************************************)
\* chunk_score times 500: min(char_count / 500, 2.0) + len(content.split()) / 100
ChunkScore500(chunk) == Min(chunk.char_count, 1000) + 5 * chunk.words

\* sorted(result.chunks, key=chunk_score, reverse=True): stable, descending.
\* The place of a chunk is one more than the number of chunks that come
\* before it: those of a higher score and the earlier ones of the same score
ScoreRank(cs, i) ==
  Cardinality({j \in 1..Len(cs) :
                 \/ ChunkScore500(cs[j]) > ChunkScore500(cs[i])
                 \/ (ChunkScore500(cs[j]) = ChunkScore500(cs[i]) /\ j < i)}) + 1

SortByScoreDesc(cs) ==
  [r \in 1..Len(cs) |-> cs[CHOOSE i \in 1..Len(cs) : ScoreRank(cs, i) = r]]

\* the chunk built from the overflowing one:
\* truncated_content = chunk.content[:remaining_chars - 50] + "..."
EllipsisLen == 3

\* a variant that keeps the whole overflowing chunk
TruncatedChunkWhole(chunk, remaining_chars) == [chunk EXCEPT !.truncated = TRUE]

TruncatedChunk(chunk, remaining_chars) ==
  LET truncated_len == Min(chunk.content_len, remaining_chars - 50) + EllipsisLen
  IN [chunk EXCEPT !.content = [head |-> chunk.content.head, tail |-> "sliced"],
                   !.content_len = truncated_len,
                   !.char_count = truncated_len,
                   !.truncated = TRUE]

\* the all_provinces branch: an equal share per province, chunks in order
RECURSIVE TruncatePerProvince(_, _, _)
TruncatePerProvince(chunks, chars_per_province, province_chars) ==
  IF chunks = <<>> THEN <<>>
  ELSE LET chunk == chunks[1]
           used == IF chunk.province \in DOMAIN province_chars
                   THEN province_chars[chunk.province] ELSE 0
       IN IF used + chunk.char_count <= chars_per_province
          THEN << chunk >> \o
               TruncatePerProvince(Tail(chunks), chars_per_province,
                 [p \in DOMAIN province_chars \cup {chunk.province} |->
                    IF p = chunk.province THEN used + chunk.char_count
                    ELSE province_chars[p]])
          ELSE TruncatePerProvince(Tail(chunks), chars_per_province,
                 [p \in DOMAIN province_chars \cup {chunk.province} |->
                    IF p = chunk.province THEN used ELSE province_chars[p]])

\* the other branch: greedy over the score order, stopping at the first
\* chunk that does not fit (sliced in when more than 200 characters remain)
RECURSIVE TruncateByScore(_, _, _)
TruncateByScore(sorted_chunks, max_chars, current_chars) ==
  IF sorted_chunks = <<>> THEN <<>>
  ELSE LET chunk == sorted_chunks[1]
       IN IF current_chars + chunk.char_count <= max_chars
          THEN << chunk >> \o
               TruncateByScore(Tail(sorted_chunks), max_chars,
                               current_chars + chunk.char_count)
          ELSE LET remaining_chars == max_chars - current_chars
               IN IF remaining_chars > 200
                  THEN << TruncatedChunk(chunk, remaining_chars) >>
                  ELSE <<>>

\* a variant that keeps the provinces and total_chars of the untruncated result
TruncateResultsStale(result, max_chars) ==
  IF result.total_chars <= max_chars THEN result
  ELSE RetrievalResult(IF result.query_type = "all_provinces"
                       THEN TruncatePerProvince(result.chunks,
                                                max_chars \div Cardinality(result.provinces),
                                                << >>)
                       ELSE TruncateByScore(SortByScoreDesc(result.chunks), max_chars, 0),
                       result.provinces, result.total_chars, result.query_type,
                       result.retrieval_strategy \o "_truncated")

\* RAGRetriever._truncate_results
_truncate_results(result, max_chars) ==
  IF result.total_chars <= max_chars THEN result
  ELSE ResultOf(IF result.query_type = "all_provinces"
                THEN TruncatePerProvince(result.chunks,
                                         max_chars \div Cardinality(result.provinces),
                                         << >>)
                ELSE TruncateByScore(SortByScoreDesc(result.chunks), max_chars, 0),
                result.query_type, result.retrieval_strategy \o "_truncated")

\* the max_chars smart_retrieve uses for an intent type
MaxContextChars(config, type) ==
  CASE type = "all_provinces" -> config.all_provinces.max_chars
    [] type = "single_province" -> config.single_province.max_chars
    [] type = "multi_province" -> config.multi_province.max_chars
    [] type = "comparison" -> config.comparison.max_chars
    [] type = "statistics" -> config.topic.max_chars
    [] OTHER -> config.max_contexts_per_query

\* smart_retrieve before its truncation step
SmartRetrieveRaw(chunks, ranking, config, intent) ==
     CASE intent.type = "all_provinces" ->
            retrieve_for_all_provinces(chunks, ranking, config)
       [] intent.type \in {"single_province", "multi_province"} ->
            retrieve_for_specific_provinces(chunks, ranking, config, intent.provinces)
       [] intent.type = "comparison" ->
            retrieve_for_comparison(chunks, ranking, config, intent.provinces)
       [] intent.type = "statistics" ->
            retrieve_by_topic(chunks, ranking, config, "target")
       [] OTHER ->
            ResultOf(EnhanceWithAdjacent(chunks,
                                         search(chunks, ranking, 60, NoFilter, NoFilter),
                                         [enhanced |-> <<>>, seen |-> {}]),
                     "general", "semantic_with_adjacent")

\* the last step of smart_retrieve: truncate a result that is too long
TruncateIfOver(result, max_context_chars) ==
  IF result.total_chars > max_context_chars
  THEN _truncate_results(result, max_context_chars)
  ELSE result

SmartRetrieveIntent(chunks, ranking, config, intent) ==
  TruncateIfOver(SmartRetrieveRaw(chunks, ranking, config, intent),
                 MaxContextChars(config, intent.type))

\* RAGRetriever.smart_retrieve (max_context_chars = None)
smart_retrieve(chunks, ranking, config, query) ==
  SmartRetrieveIntent(chunks, ranking, config, identify_query_intent(query))

(***************************************************************************)
(* Texts.  The aggregator works on characters, so a text (a line, an item, *)
(* a completion's content) is the sequence of its Unicode code points.     *)
(***************************************************************************)
\* the characters of each province name, parallel to PROVINCES
PROVINCE_NAMES ==
  << <<21271, 20140>>,          \* 北京 Beijing
     <<22825, 27941>>,          \* 天津 Tianjin
     <<27827, 21271>>,          \* 河北 Hebei
     <<23665, 35199>>,          \* 山西 Shanxi
     <<20869, 33945, 21476>>,   \* 内蒙古 Neimenggu
     <<36797, 23425>>,          \* 辽宁 Liaoning
     <<21513, 26519>>,          \* 吉林 Jilin
     <<40657, 40857, 27743>>,   \* 黑龙江 Heilongjiang
     <<19978, 28023>>,          \* 上海 Shanghai
     <<27743, 33487>>,          \* 江苏 Jiangsu
     <<27993, 27743>>,          \* 浙江 Zhejiang
     <<23433, 24509>>,          \* 安徽 Anhui
     <<31119, 24314>>,          \* 福建 Fujian
     <<27743, 35199>>,          \* 江西 Jiangxi
     <<23665, 19996>>,          \* 山东 Shandong
     <<27827, 21335>>,          \* 河南 Henan
     <<28246, 21271>>,          \* 湖北 Hubei
     <<28246, 21335>>,          \* 湖南 Hunan
     <<24191, 19996>>,          \* 广东 Guangdong
     <<24191, 35199>>,          \* 广西 Guangxi
     <<28023, 21335>>,          \* 海南 Hainan
     <<37325, 24198>>,          \* 重庆 Chongqing
     <<22235, 24029>>,          \* 四川 Sichuan
     <<36149, 24030>>,          \* 贵州 Guizhou
     <<20113, 21335>>,          \* 云南 Yunnan
     <<35199, 34255>>,          \* 西藏 Xizang
     <<38485, 35199>>,          \* 陕西 Shaanxi
     <<29976, 32899>>,          \* 甘肃 Gansu
     <<38738, 28023>>,          \* 青海 Qinghai
     <<23425, 22799>>,          \* 宁夏 Ningxia
     <<26032, 30086>>  >>       \* 新疆 Xinjiang

\* the characters of province p
ProvinceChars(p) == PROVINCE_NAMES[CHOOSE i \in 1..Len(PROVINCES) : PROVINCES[i] = p]

\* ResultAggregator.province_aliases, in dict order
province_aliases ==
  << [alias |-> 20140, full |-> "Beijing"],       \* 京
     [alias |-> 27941, full |-> "Tianjin"],       \* 津
     [alias |-> 20864, full |-> "Hebei"],         \* 冀
     [alias |-> 26187, full |-> "Shanxi"],        \* 晋
     [alias |-> 33945, full |-> "Neimenggu"],     \* 蒙
     [alias |-> 36797, full |-> "Liaoning"],      \* 辽
     [alias |-> 21513, full |-> "Jilin"],         \* 吉
     [alias |-> 40657, full |-> "Heilongjiang"],  \* 黑
     [alias |-> 27818, full |-> "Shanghai"],      \* 沪
     [alias |-> 33487, full |-> "Jiangsu"],       \* 苏
     [alias |-> 27993, full |-> "Zhejiang"],      \* 浙
     [alias |-> 30358, full |-> "Anhui"],         \* 皖
     [alias |-> 38397, full |-> "Fujian"],        \* 闽
     [alias |-> 36195, full |-> "Jiangxi"],       \* 赣
     [alias |-> 40065, full |-> "Shandong"],      \* 鲁
     [alias |-> 35947, full |-> "Henan"],         \* 豫
     [alias |-> 37122, full |-> "Hubei"],         \* 鄂
     [alias |-> 28248, full |-> "Hunan"],         \* 湘
     [alias |-> 31908, full |-> "Guangdong"],     \* 粤
     [alias |-> 26690, full |-> "Guangxi"],       \* 桂
     [alias |-> 29756, full |-> "Hainan"],        \* 琼
     [alias |-> 28189, full |-> "Chongqing"],     \* 渝
     [alias |-> 24029, full |-> "Sichuan"],       \* 川
     [alias |-> 34560, full |-> "Sichuan"],       \* 蜀
     [alias |-> 40660, full |-> "Guizhou"],       \* 黔
     [alias |-> 36149, full |-> "Guizhou"],       \* 贵
     [alias |-> 28359, full |-> "Yunnan"],        \* 滇
     [alias |-> 20113, full |-> "Yunnan"],        \* 云
     [alias |-> 34255, full |-> "Xizang"],        \* 藏
     [alias |-> 38485, full |-> "Shaanxi"],       \* 陕
     [alias |-> 31206, full |-> "Shaanxi"],       \* 秦
     [alias |-> 29976, full |-> "Gansu"],         \* 甘
     [alias |-> 38471, full |-> "Gansu"],         \* 陇
     [alias |-> 38738, full |-> "Qinghai"],       \* 青
     [alias |-> 23425, full |-> "Ningxia"],       \* 宁
     [alias |-> 26032, full |-> "Xinjiang"] >>    \* 新

\* ResultAggregator.target_keywords:
\* 目标 任务 重点 计划 规划 工程 项目 举措 推进 发展 建设 完善 提升 增长 实现 达到
target_keywords ==
  << <<30446, 26631>>, <<20219, 21153>>, <<37325, 28857>>, <<35745, 21010>>,
     <<35268, 21010>>, <<24037, 31243>>, <<39033, 30446>>, <<20030, 25514>>,
     <<25512, 36827>>, <<21457, 23637>>, <<24314, 35774>>, <<23436, 21892>>,
     <<25552, 21319>>, <<22686, 38271>>, <<23454, 29616>>, <<36798, 21040>> >>

\* the separators of _extract_targets_from_line, in priority order:
\* '、' '，' ',' '；' ';' '。' '|'
separators == << 12289, 65292, 44, 65307, 59, 12290, 124 >>

\* '：' and ':'
Colons == {65306, 58}

\* the characters str.strip() and the regex \s remove
Whitespace == {9, 10, 11, 12, 13, 32, 12288}

\* '0'..'9'
Digits == 48..57

NoProvince == "none"

\* Python's `sub in s` on texts
IsSubstring(sub, s) ==
  \E i \in 0..(Len(s) - Len(sub)) : \A k \in 1..Len(sub) : s[i + k] = sub[k]

IsPrefix(pre, s) == Len(pre) <= Len(s) /\ \A k \in 1..Len(pre) : s[k] = pre[k]

\* Python's s.strip()
Strip(s) ==
  LET keep == {i \in 1..Len(s) : s[i] \notin Whitespace}
  IN IF keep = {} THEN <<>>
     ELSE SubSeq(s, CHOOSE i \in keep : \A j \in keep : i <= j,
                    CHOOSE i \in keep : \A j \in keep : i >= j)

\* Python's s.split(ch) for a one-character separator
RECURSIVE SplitOn(_, _)
SplitOn(s, ch) ==
  LET at == {i \in 1..Len(s) : s[i] = ch}
  IN IF at = {} THEN << s >>
     ELSE LET i == CHOOSE x \in at : \A y \in at : x <= y
          IN << SubSeq(s, 1, i - 1) >> \o SplitOn(SubSeq(s, i + 1, Len(s)), ch)

\* Python's sep.join(parts)
RECURSIVE Join(_, _)
Join(parts, sep) ==
  IF parts = <<>> THEN <<>>
  ELSE IF Len(parts) = 1 THEN parts[1]
  ELSE parts[1] \o sep \o Join(Tail(parts), sep)

\* the decimal digits of n >= 0, as str(n)
RECURSIVE DecimalChars(_)
DecimalChars(n) ==
  IF n < 10 THEN << 48 + n >> ELSE Append(DecimalChars(n \div 10), 48 + (n % 10))

(***************************************************************************)
(* ResultAggregator: parsing (result_aggregator.py)                        *)
(***************************************************************************)
\* ResultAggregator._extract_province_from_line
_extract_province_from_line(line) ==
  LET named == {i \in 1..Len(PROVINCES) : IsSubstring(PROVINCE_NAMES[i], line)}
      aliased == {i \in 1..Len(province_aliases) :
                    province_aliases[i].alias \in Range(line)}
      \* re.search(r'([^：:]+)(?:省|市|自治区)?[：:]', line): group(1) is the
      \* first run of non-colon characters, when a colon follows it
      plain == {i \in 1..Len(line) : line[i] \notin Colons}
      s0 == MinOf(plain)
      after == {i \in 1..Len(line) : i > s0 /\ line[i] \in Colons}
      potential_province == Strip(SubSeq(line, s0, MinOf(after) - 1))
      fuzzy == {i \in 1..Len(PROVINCES) :
                  \/ IsSubstring(PROVINCE_NAMES[i], potential_province)
                  \/ IsSubstring(potential_province, PROVINCE_NAMES[i])}
  IN IF named # {} THEN PROVINCES[MinOf(named)]
     ELSE IF aliased # {} THEN province_aliases[MinOf(aliased)].full
     ELSE IF plain # {} /\ after # {} /\ fuzzy # {} THEN PROVINCES[MinOf(fuzzy)]
     ELSE NoProvince

\* re.sub(f'^{province}[：:]?', '', clean_line), for every province in turn
RECURSIVE StripProvincePrefixes(_, _)
StripProvincePrefixes(clean_line, i) ==
  IF i > Len(PROVINCE_NAMES) THEN clean_line
  ELSE LET name == PROVINCE_NAMES[i]
           n == Len(name)
       IN IF ~IsPrefix(name, clean_line) THEN StripProvincePrefixes(clean_line, i + 1)
          ELSE IF Len(clean_line) > n /\ clean_line[n + 1] \in Colons
          THEN StripProvincePrefixes(SubSeq(clean_line, n + 2, Len(clean_line)), i + 1)
          ELSE StripProvincePrefixes(SubSeq(clean_line, n + 1, Len(clean_line)), i + 1)

\* re.sub(r'^[0-9]+\.?\s*', '', target).strip()
StripNumbering(target) ==
  LET nondigit == {i \in 1..Len(target) : target[i] \notin Digits}
      d == IF nondigit = {} THEN Len(target) ELSE MinOf(nondigit) - 1
      afterdot == IF d < Len(target) /\ target[d + 1] = 46 THEN d + 1 ELSE d
      rest == SubSeq(target, afterdot + 1, Len(target))
  IN IF d = 0 THEN Strip(target) ELSE Strip(rest)

\* any(keyword in target for keyword in self.target_keywords)
HasTargetKeyword(target) ==
  \E i \in 1..Len(target_keywords) : IsSubstring(target_keywords[i], target)

\* the parts kept by the split: part.strip() longer than 3 characters
KeptParts(parts) ==
  SelectSeq([i \in 1..Len(parts) |-> Strip(parts[i])], LAMBDA part : Len(part) > 3)

\* a variant that splits on the last separator of `separators` the line contains
SplitTargetsLastSeparator(clean_line) ==
  LET present == {i \in 1..Len(separators) : separators[i] \in Range(clean_line)}
  IN IF present # {}
     THEN KeptParts(SplitOn(clean_line, separators[CHOOSE i \in present : \A j \in present : i >= j]))
     ELSE KeptParts(<< clean_line >>)

\* the split on the first separator of `separators` the line contains
SplitTargets(clean_line) ==
  LET present == {i \in 1..Len(separators) : separators[i] \in Range(clean_line)}
  IN IF present # {}
     THEN KeptParts(SplitOn(clean_line, separators[MinOf(present)]))
     ELSE KeptParts(<< clean_line >>)

\* the second pass: numbering removed, then the keyword-or-length filter
CleanedTargets(targets) ==
  SelectSeq([i \in 1..Len(targets) |-> StripNumbering(targets[i])],
            LAMBDA target : HasTargetKeyword(target) \/ Len(target) > 10)

\* ResultAggregator._extract_targets_from_line
_extract_targets_from_line(line) ==
  CleanedTargets(SplitTargets(StripProvincePrefixes(line, 1)))

\* an insertion-ordered dict province -> targets, as a sequence of entries
DictKeys(d) == [i \in 1..Len(d) |-> d[i].province]

DictGet(d, province) ==
  LET at == {i \in 1..Len(d) : d[i].province = province}
  IN IF at = {} THEN <<>> ELSE d[MinOf(at)].targets

\* d.setdefault(province, []).extend(targets)
DictExtend(d, province, targets) ==
  IF province \in Range(DictKeys(d))
  THEN [i \in 1..Len(d) |->
          IF d[i].province = province
          THEN [province |-> province, targets |-> d[i].targets \o targets]
          ELSE d[i]]
  ELSE Append(d, [province |-> province, targets |-> targets])

\* the line loop of _parse_province_content
RECURSIVE ParseLines(_, _, _)

\* a non-empty line: it opens a province, or belongs to the current one
ParseMatched(rest, line, province_match, current_province, province_info) ==
  IF province_match # NoProvince
  THEN ParseLines(rest, province_match,
                  DictExtend(province_info, province_match,
                             _extract_targets_from_line(line)))
  ELSE IF current_province # NoProvince
  THEN ParseLines(rest, current_province,
                  DictExtend(province_info, current_province,
                             _extract_targets_from_line(line)))
  ELSE ParseLines(rest, current_province, province_info)

ParseLine(rest, line, current_province, province_info) ==
  IF line = <<>> THEN ParseLines(rest, current_province, province_info)
  ELSE ParseMatched(rest, line, _extract_province_from_line(line), current_province,
                    province_info)

ParseLines(lines, current_province, province_info) ==
  IF lines = <<>> THEN province_info
  ELSE ParseLine(Tail(lines), Strip(lines[1]), current_province, province_info)

\* ResultAggregator._parse_province_content
_parse_province_content(content) == ParseLines(SplitOn(content, 10), NoProvince, <<>>)

\* re.sub(r'(省|市|自治区|特别行政区)$', '', province)
StripSuffix(chars) ==
  LET n == Len(chars)
  IN IF n >= 1 /\ chars[n] \in {30465, 24066} THEN SubSeq(chars, 1, n - 1)
     ELSE IF n >= 3 /\ SubSeq(chars, n - 2, n) = <<33258, 27835, 21306>>
       THEN SubSeq(chars, 1, n - 3)
     ELSE IF n >= 5 /\ SubSeq(chars, n - 4, n) = <<29305, 21035, 34892, 25919, 21306>>
       THEN SubSeq(chars, 1, n - 5)
     ELSE chars

\* the alias table, then the first standard name containing the stripped name
NormalizeStripped(province, stripped) ==
  LET aliased == {i \in 1..Len(province_aliases) :
                    stripped = << province_aliases[i].alias >>}
      std == {i \in 1..Len(PROVINCES) : IsSubstring(stripped, PROVINCE_NAMES[i])}
  IN IF aliased # {} THEN province_aliases[MinOf(aliased)].full
     ELSE IF std # {} THEN PROVINCES[MinOf(std)]
     ELSE province

\* ResultAggregator._normalize_province_name, on the names the parser returns
_normalize_province_name(province) ==
  IF province = NoProvince THEN NoProvince
  ELSE NormalizeStripped(province, StripSuffix(ProvinceChars(province)))

(***************************************************************************)
(* ResultAggregator: deduplication                                         *)
(***************************************************************************)
\* ResultAggregator._calculate_similarity, as the fraction common / max_length
\* (0 / 1 when either text is empty)
_calculate_similarity(text1, text2) ==
  IF text1 = <<>> \/ text2 = <<>> THEN [common |-> 0, max_length |-> 1]
  ELSE [common |-> Cardinality({i \in 1..Len(text1) : text1[i] \in Range(text2)}),
        max_length |-> Max(Len(text1), Len(text2))]

\* similarity > 0.8
Above08(sim) == sim.common * 10 > 8 * sim.max_length

\* list(dict.fromkeys(targets)): first occurrences, in order
RECURSIVE UniqueInOrder(_)
UniqueInOrder(targets) ==
  IF targets = <<>> THEN <<>>
  ELSE LET init == UniqueInOrder(SubSeq(targets, 1, Len(targets) - 1))
           last == targets[Len(targets)]
       IN IF last \in Range(init) THEN init ELSE Append(init, last)

\* one iteration of the outer loop of _deduplicate_targets: the first
\* existing item the target is similar to decides (the inner loop breaks)
DedupStep(final_targets, target) ==
  LET similar == {i \in 1..Len(final_targets) :
                    Above08(_calculate_similarity(target, final_targets[i]))}
  IN IF similar = {} THEN Append(final_targets, target)
     ELSE LET i == MinOf(similar)
              existing == final_targets[i]
          IN IF Len(target) > Len(existing)
             THEN Append(SelectSeq(final_targets, LAMBDA t : t # existing), target)
             ELSE final_targets

RECURSIVE DedupLoop(_, _)
DedupLoop(unique_targets, final_targets) ==
  IF unique_targets = <<>> THEN final_targets
  ELSE DedupLoop(Tail(unique_targets), DedupStep(final_targets, unique_targets[1]))

\* ResultAggregator._deduplicate_targets
_deduplicate_targets(targets) ==
  IF targets = <<>> THEN <<>> ELSE DedupLoop(UniqueInOrder(targets), <<>>)

(***************************************************************************)
(* ResultAggregator: rendering                                             *)
(***************************************************************************)
\* Python's order of two different texts (by code point, then by length)
LexLess(a, b) ==
  LET diff == {i \in 1..Min(Len(a), Len(b)) : a[i] # b[i]}
  IN IF diff = {} THEN Len(a) < Len(b) ELSE a[MinOf(diff)] < b[MinOf(diff)]

\* sorted(provinces) for a set of province names
RECURSIVE SortProvinces(_)
SortProvinces(S) ==
  IF S = {} THEN <<>>
  ELSE LET first == CHOOSE x \in S :
                      \A y \in S \ {x} : LexLess(ProvinceChars(x), ProvinceChars(y))
       IN << first >> \o SortProvinces(S \ {first})

\* the lines of a rendering, one per sorted province
EntriesOf(province_contents, keys) ==
  [i \in 1..Len(keys) |->
     [province |-> keys[i], targets |-> DictGet(province_contents, keys[i])]]

SortedEntries(province_contents) ==
  EntriesOf(province_contents, SortProvinces(Range(DictKeys(province_contents))))

\* one rendered item per entry
MapEntries(entries, Render(_)) == [i \in 1..Len(entries) |-> Render(entries[i])]

\* ResultAggregator._format_as_province_list
_format_as_province_list(province_contents) ==
  LET line(e) ==
        IF e.targets # <<>>
        THEN ProvinceChars(e.province) \o <<65306>>
             \o Join(Take(e.targets, 5), <<12289>>)
             \o (IF Len(e.targets) > 5
                 THEN <<31561>> \o DecimalChars(Len(e.targets)) \o <<39033>>
                 ELSE <<>>)
        ELSE ProvinceChars(e.province) \o <<65306, 20449, 24687, 19981, 36275>>
  IN Join(MapEntries(SortedEntries(province_contents), line), <<10>>)

\* ResultAggregator._format_as_detailed_report
_format_as_detailed_report(province_contents) ==
  LET section(e) ==
        << <<35, 35, 32>> \o ProvinceChars(e.province) >>
        \o (IF e.targets # <<>>
            THEN [i \in 1..Len(e.targets) |->
                    DecimalChars(i) \o <<46, 32>> \o e.targets[i]]
            ELSE << <<26242, 26080, 20855, 20307, 30446, 26631, 20449, 24687>> >>)
        \o << <<>> >>
      header == <<35, 32, 21508, 30465, 25919, 24220, 24037, 20316, 25253, 21578,
                  20027, 35201, 30446, 26631, 27719, 24635, 10>>
  IN Join(<< header >> \o Flatten(MapEntries(SortedEntries(province_contents), section)),
          <<10>>)

\* ResultAggregator._format_as_comparison_table
_format_as_comparison_table(province_contents) ==
  LET row(e) ==
        <<124, 32>> \o ProvinceChars(e.province) \o <<32, 124, 32>>
        \o (IF e.targets # <<>>
            THEN Join(Take(e.targets, 3), <<12289>>)
                 \o (IF Len(e.targets) > 3 THEN <<46, 46, 46>> ELSE <<>>)
            ELSE <<20449, 24687, 19981, 36275>>)
        \o <<32, 124, 32>> \o DecimalChars(Len(e.targets)) \o <<32, 124>>
      head == <<124, 32, 30465, 20221, 32, 124, 32, 20027, 35201, 24037, 20316,
                30446, 26631, 32, 124, 32, 30446, 26631, 25968, 37327, 32, 124>>
      rule == <<124, 45, 45, 45, 45, 45, 45, 124, 45, 45, 45, 45, 45, 45, 45, 45,
                45, 45, 45, 45, 45, 124, 45, 45, 45, 45, 45, 45, 45, 45, 45, 124>>
  IN Join(<< head, rule >> \o MapEntries(SortedEntries(province_contents), row), <<10>>)

\* f"{a / b:.1f}" for a >= 0, b > 0 (ties to even; exact while b < 20)
OneDecimal(a, b) ==
  LET q == (10 * a) \div b
      r == (10 * a) % b
      tenths == IF 2 * r > b THEN q + 1
                ELSE IF 2 * r = b THEN q + (q % 2)
                ELSE q
  IN DecimalChars(tenths \div 10) \o <<46>> \o DecimalChars(tenths % 10)

\* sorted(target_types.items(), key=count, reverse=True): stable, descending
RECURSIVE InsertByCount(_, _)
InsertByCount(sorted, e) ==
  IF sorted = <<>> THEN << e >>
  ELSE IF sorted[Len(sorted)].count >= e.count THEN Append(sorted, e)
  ELSE Append(InsertByCount(SubSeq(sorted, 1, Len(sorted) - 1), e), sorted[Len(sorted)])

RECURSIVE SortByCountDesc(_)
SortByCountDesc(es) ==
  IF es = <<>> THEN <<>>
  ELSE InsertByCount(SortByCountDesc(SubSeq(es, 1, Len(es) - 1)), es[Len(es)])

\* sum(len(targets) for targets in province_contents.values())
TotalTargets(province_contents) ==
  SumSeq([i \in 1..Len(province_contents) |-> Len(province_contents[i].targets)])

\* _format_as_statistics divides by the number of provinces (line 382)
StatisticsRaises(province_contents) == Len(province_contents) = 0

\* ResultAggregator._format_as_statistics, when it does not raise
_format_as_statistics(province_contents) ==
  LET total_provinces == Len(province_contents)
      total_targets == TotalTargets(province_contents)
      provinces_with_targets ==
        Cardinality({i \in 1..Len(province_contents) :
                       province_contents[i].targets # <<>>})
      all_targets == Flatten([i \in 1..Len(province_contents) |->
                                province_contents[i].targets])
      count(k) == Cardinality({i \in 1..Len(all_targets) :
                                 IsSubstring(target_keywords[k], all_targets[i])})
      first(k) == MinOf({i \in 1..Len(all_targets) :
                           IsSubstring(target_keywords[k], all_targets[i])})
      \* the keys of target_types in insertion order: by the first target
      \* holding the keyword, then by the keyword's place in target_keywords
      found == {k \in 1..Len(target_keywords) : count(k) > 0}
      RECURSIVE Ordered(_)
      Ordered(K) ==
        IF K = {} THEN <<>>
        ELSE LET k == CHOOSE x \in K : \A y \in K \ {x} :
                        first(x) < first(y) \/ (first(x) = first(y) /\ x < y)
             IN << [keyword |-> target_keywords[k], count |-> count(k)] >>
                \o Ordered(K \ {k})
      sorted_types == Take(SortByCountDesc(Ordered(found)), 10)
      type_line(e) == <<45, 32>> \o e.keyword \o <<65306>> \o DecimalChars(e.count)
                      \o <<32, 27425>>
      lines ==
        << <<35, 32, 25919, 24220, 24037, 20316, 25253, 21578, 32479, 35745, 20998, 26512>>,
           <<>>,
           <<35, 35, 32, 22522, 26412, 32479, 35745>>,
           <<45, 32, 24635, 30465, 20221, 25968, 65306>> \o DecimalChars(total_provinces),
           <<45, 32, 26377, 30446, 26631, 20449, 24687, 30340, 30465, 20221, 65306>>
             \o DecimalChars(provinces_with_targets),
           <<45, 32, 24635, 30446, 26631, 25968, 37327, 65306>> \o DecimalChars(total_targets),
           <<45, 32, 24179, 22343, 27599, 30465, 30446, 26631, 25968, 65306>>
             \o OneDecimal(total_targets, total_provinces),
           <<>> >>
        \o (IF found # {}
            THEN << <<35, 35, 32, 30446, 26631, 31867, 22411, 20998, 24067>> >>
                 \o [i \in 1..Len(sorted_types) |-> type_line(sorted_types[i])]
            ELSE <<>>)
  IN Join(lines, <<10>>)

(***************************************************************************)
(* ResultAggregator.aggregate_batch_results and optimize_for_token_limit   *)
(***************************************************************************)
\* a fraction num / den, for success_rate
Frac(num, den) == [num |-> num, den |-> den]

\* "抱歉，没有获取到有效的查询结果。"
NoValidResultsMessage ==
  <<25265, 27465, 65292, 27809, 26377, 33719, 21462, 21040, 26377, 25928, 30340,
    26597, 35810, 32467, 26524, 12290>>

AggregatedResult(content, provinces, total_targets, format_type, processing_stats) ==
  [raised |-> "none", content |-> content, provinces |-> provinces,
   total_targets |-> total_targets, format_type |-> format_type,
   processing_stats |-> processing_stats]

\* an exception leaving a function instead of a value
Raised(exception) == [raised |-> exception]

\* the loop over successful results: parse, normalise, merge per province
\* if normalized_province: province_contents[normalized_province].extend(targets)
MergeOne(province_contents, normalized_province, targets) ==
  IF normalized_province # NoProvince
  THEN DictExtend(province_contents, normalized_province, targets)
  ELSE province_contents

RECURSIVE MergeParsed(_, _)
MergeParsed(parsed_info, province_contents) ==
  IF parsed_info = <<>> THEN province_contents
  ELSE MergeParsed(Tail(parsed_info),
                   MergeOne(province_contents,
                            _normalize_province_name(parsed_info[1].province),
                            parsed_info[1].targets))

RECURSIVE CollectProvinceContents(_, _)
CollectProvinceContents(successful_results, province_contents) ==
  IF successful_results = <<>> THEN province_contents
  ELSE CollectProvinceContents(
         Tail(successful_results),
         MergeParsed(_parse_province_content(successful_results[1].content),
                     province_contents))

\* the rendering chosen by output_format
FormatContent(province_contents, output_format) ==
  CASE output_format = "province_list" -> _format_as_province_list(province_contents)
    [] output_format = "detailed" -> _format_as_detailed_report(province_contents)
    [] output_format = "comparison" -> _format_as_comparison_table(province_contents)
    [] output_format = "statistics" -> _format_as_statistics(province_contents)
    [] OTHER -> _format_as_province_list(province_contents)

\* province_contents[province] = self._deduplicate_targets(...), per province
DeduplicateAll(province_contents) ==
  [i \in 1..Len(province_contents) |->
     [province |-> province_contents[i].province,
      targets |-> _deduplicate_targets(province_contents[i].targets)]]

\* the rendering and the statistics, from the deduplicated contents
AggregateContents(batch_results, successful_results, province_contents, output_format) ==
  IF output_format = "statistics" /\ StatisticsRaises(province_contents)
  THEN Raised("ZeroDivisionError")
  ELSE AggregatedResult(
         FormatContent(province_contents, output_format),
         SortProvinces(Range(DictKeys(province_contents))),
         TotalTargets(province_contents), output_format,
         [success_rate |-> Frac(Len(successful_results), Len(batch_results)),
          total_batches |-> Len(batch_results),
          successful_batches |-> Len(successful_results),
          provinces_found |-> Len(province_contents),
          total_targets_extracted |-> TotalTargets(province_contents)])

\* a variant whose early return is taken only for an empty list
AggregateNonEmpty(batch_results, successful_results, output_format) ==
  IF batch_results = <<>>
  THEN AggregatedResult(NoValidResultsMessage, <<>>, 0, output_format,
                        [success_rate |-> Frac(0, 1),
                         total_batches |-> Len(batch_results)])
  ELSE AggregateContents(batch_results, successful_results,
                         DeduplicateAll(CollectProvinceContents(successful_results, <<>>)),
                         output_format)

\* the early return of aggregate_batch_results, or the aggregation
AggregateSuccessful(batch_results, successful_results, output_format) ==
  IF successful_results = <<>>
  THEN AggregatedResult(NoValidResultsMessage, <<>>, 0, output_format,
                        [success_rate |-> Frac(0, 1),
                         total_batches |-> Len(batch_results)])
  ELSE AggregateContents(batch_results, successful_results,
                         DeduplicateAll(CollectProvinceContents(successful_results, <<>>)),
                         output_format)

\* ResultAggregator.aggregate_batch_results
aggregate_batch_results(batch_results, output_format) ==
  AggregateSuccessful(batch_results, SelectSeq(batch_results, LAMBDA r : r.success),
                      output_format)

\* any(province in line for province in [...31 names...])
HasProvinceName(line) == \E i \in 1..Len(PROVINCE_NAMES) : IsSubstring(PROVINCE_NAMES[i], line)

\* the line loop of optimize_for_token_limit; max_chars = max_tokens * 1.5 is a
\* float, so the comparisons are made on doubled values, and the slice
\* line[:remaining_chars] with a float bound raises TypeError
RECURSIVE OptimizeLines(_, _, _, _)
OptimizeLines(lines, max_tokens, optimized_lines, current_chars) ==
  IF lines = <<>> THEN [raised |-> "none", lines |-> optimized_lines]
  ELSE LET line == lines[1]
       IN IF ~HasProvinceName(line)
          THEN OptimizeLines(Tail(lines), max_tokens, optimized_lines, current_chars)
          ELSE IF 2 * (current_chars + Len(line)) <= 3 * max_tokens
          THEN OptimizeLines(Tail(lines), max_tokens, Append(optimized_lines, line),
                             current_chars + Len(line) + 1)
          ELSE IF 3 * max_tokens - 2 * current_chars > 20
          THEN Raised("TypeError")
          ELSE [raised |-> "none", lines |-> optimized_lines]

\* ResultAggregator.optimize_for_token_limit
optimize_for_token_limit(content, max_tokens) ==
  IF 2 * Len(content) <= 3 * max_tokens THEN [raised |-> "none", content |-> content]
  ELSE LET r == OptimizeLines(SplitOn(content, 10), max_tokens, <<>>, 0)
       IN IF r.raised # "none" THEN r
          ELSE [raised |-> "none", content |-> Join(r.lines, <<10>>)]

(***************************************************************************)
(* Inputs: queries, the document store, the retrieval configuration and    *)
(* the completions the chat API returns                                    *)
(***************************************************************************)
\* a query: the vocabulary words it contains and the provinces it names, in
\* the order it names them
Query(kw, mentions) == [kw |-> kw, mentions |-> mentions]

KeywordSets(vocabulary) == {kw \in SUBSET vocabulary : Cardinality(kw) <= MaxKw}

MentionOrders ==
  {Take(PROVINCES, n) : n \in 0..MaxMentions}
    \cup {Reverse(Take(PROVINCES, n)) : n \in 0..MaxMentions}

Queries == {Query(kw, m) : kw \in KeywordSets(QueryVocabulary), m \in MentionOrders}

\* the store: chunks of three reports; char_count = len(content)
SampleChunks ==
  << DocumentChunk("Beijing_0", "Beijing", [head |-> "bj0", tail |-> "full"], 400, 12,
                   "target", 400, "beijing.md", 0, 0),
     DocumentChunk("Beijing_1", "Beijing", [head |-> "bj1", tail |-> "full"], 260, 3,
                   "general", 260, "beijing.md", 350, 1),
     DocumentChunk("Tianjin_0", "Tianjin", [head |-> "tj0", tail |-> "full"], 400, 1,
                   "target", 400, "tianjin.md", 0, 0),
     DocumentChunk("Tianjin_1", "Tianjin", [head |-> "tj1", tail |-> "full"], 120, 2,
                   "general", 120, "tianjin.md", 350, 1),
     DocumentChunk("Hebei_0", "Hebei", [head |-> "hb0", tail |-> "full"], 260, 1,
                   "target", 260, "hebei.md", 0, 0) >>

IdentityRanking == [i \in 1..Len(SampleChunks) |-> i]

\* nearest-first orders the index may return; <<>> when the search fails
Rankings ==
  {<<>>, IdentityRanking, Reverse(IdentityRanking), <<2, 4, 5, 1, 3>>}

MaxQuota == 2
Budgets == {0, 250, 650, 1500}

\* RETRIEVAL_CONFIG with one per-province quota, one budget for the
\* province-targeted paths and one for the others
RetrievalConfig(quota, targeted_chars, other_chars) ==
  [all_provinces |-> [top_k_per_province |-> quota, max_chars |-> other_chars],
   single_province |-> [top_k_per_province |-> quota + 1, max_chars |-> targeted_chars],
   multi_province |-> [top_k_per_province |-> quota, max_chars |-> targeted_chars],
   comparison |-> [top_k_per_province |-> quota, max_total |-> 2 * quota,
                   max_chars |-> other_chars],
   topic |-> [top_k |-> 2 * quota, max_chars |-> other_chars],
   max_contexts_per_query |-> other_chars]

RetrievalConfigs ==
  {RetrievalConfig(q, t, o) : q \in 1..MaxQuota, t \in Budgets, o \in Budgets}

\* "暂无相关数据": a completion that names no province
PlainContent == <<26242, 26080, 30456, 20851, 25968, 25454>>

\* "北京：推进产业升级目标" / "天津：完成经济增长任务"
ListingContent ==
  <<21271, 20140, 65306, 25512, 36827, 20135, 19994, 21319, 32423, 30446, 26631, 10,
    22825, 27941, 65306, 23436, 25104, 32463, 27982, 22686, 38271, 20219, 21153>>

\* "北京：完成经济增长任务": another batch's answer about Beijing
SecondListingContent ==
  <<21271, 20140, 65306, 23436, 25104, 32463, 27982, 22686, 38271, 20219, 21153>>

\* "北京：" followed by one long line of text
LongContentLen == 6001
LongContent == <<21271, 20140, 65306>> \o [i \in 1..LongContentLen |-> 22909]

(***************************************************************************)
(* QueryRouter: batch execution (query_router.py)                          *)
(***************************************************************************)
\* the retrieval step of _execute_single_batch: the RetrievalResult that is
\* handed to format_context and _build_prompt
BatchRetrieval(batch, chunks, ranking, config) ==
  IF batch.type \in {"province_group", "province_chunk"}
  THEN retrieve_for_specific_provinces(chunks, ranking, config, batch.provinces)
  ELSE smart_retrieve(chunks, ranking, config, batch.query)

\* what happens inside one batch: "ok" the API answers with `content`,
\* "api_error" the API call returns an unsuccessful APIResponse,
\* "exception" something raises before the API answers
Outcome(kind, content) == [kind |-> kind, content |-> content]

\* "未找到相关信息。"
NoInformationFound == <<26410, 25214, 21040, 30456, 20851, 20449, 24687, 12290>>

\* the provinces of `chunks` in the order a dict first receives them
ProvinceOrder(chunks) ==
  LET first == {i \in 1..Len(chunks) :
                  \A j \in 1..(i - 1) : chunks[j].province # chunks[i].province}
  IN [r \in 1..Cardinality(first) |->
        chunks[CHOOSE i \in first : Cardinality({j \in first : j <= i}) = r].province]

\* Retriever.format_context: the fixed sentence for a result without chunks,
\* otherwise one "=== province ===" part per province followed by the
\* contents of its chunks
format_context(result) ==
  IF result.chunks = <<>>
  THEN [text |-> NoInformationFound, parts |-> <<>>]
  ELSE LET order == ProvinceOrder(result.chunks)
       IN [text |-> <<>>,
           parts |-> [r \in 1..Len(order) |->
                        [province |-> order[r],
                         contents |-> LET own == SelectSeq(result.chunks,
                                                   LAMBDA c : c.province = order[r])
                                      IN [k \in 1..Len(own) |-> own[k].content]]]]

\* QueryRouter._build_prompt: the query, the context and the instruction of
\* the output format (province_list for a format without an instruction)
_build_prompt(query, context, output_format) ==
  [query |-> query, context |-> context,
   instruction |-> IF output_format \in {"province_list", "detailed", "comparison",
                                         "statistics"}
                   THEN output_format ELSE "province_list"]

\* a batch execution that gives up when nothing was retrieved
ExecuteBatchNeedsChunks(batch, chunks, ranking, config, outcome) ==
  LET retrieval_result == BatchRetrieval(batch, chunks, ranking, config)
  IN IF outcome.kind = "ok" /\ retrieval_result.chunks # <<>>
     THEN [success |-> TRUE, content |-> outcome.content,
           provinces |-> retrieval_result.provinces, batch_info |-> batch]
     ELSE [success |-> FALSE, error |-> "exception", batch_info |-> batch]

\* QueryRouter._execute_single_batch
_execute_single_batch(batch, chunks, ranking, config, outcome) ==
  IF outcome.kind = "exception"
  THEN [success |-> FALSE, error |-> "exception", batch_info |-> batch]
  ELSE LET retrieval_result == BatchRetrieval(batch, chunks, ranking, config)
       IN IF outcome.kind = "ok"
          THEN [success |-> TRUE, content |-> outcome.content,
                provinces |-> retrieval_result.provinces, batch_info |-> batch]
          ELSE [success |-> FALSE, error |-> "api_error", batch_info |-> batch]

\* "没有成功的查询结果"
NoSuccessfulResults == <<27809, 26377, 25104, 21151, 30340, 26597, 35810, 32467, 26524>>

\* QueryRouter._aggregate_results, with the counts execute_query_plan adds
_aggregate_results(results, plan) ==
  IF results = <<>>
  THEN [success |-> FALSE, content |-> NoSuccessfulResults, provinces |-> {},
        total_batches |-> Len(plan.batches), successful_batches |-> 0]
  ELSE LET all_content == [i \in 1..Len(results) |-> results[i].content]
           all_provinces == UNION {results[i].provinces : i \in 1..Len(results)}
           final_content ==
             IF plan.output_format = "province_list" THEN Join(all_content, <<10>>)
             ELSE Join(all_content, <<10, 10>>)
       IN [success |-> TRUE, content |-> final_content, provinces |-> all_provinces,
           batch_results |-> results,
           total_batches |-> Len(plan.batches), successful_batches |-> Len(results)]

(***************************************************************************)
(* GovernmentReportRAG.query (main.py)                                     *)
(***************************************************************************)
FailureResponse(error, content) == [success |-> FALSE, error |-> error, content |-> content]

NoResponse == FailureResponse("none", <<>>)

\* step 5 and the return of query
SuccessResponse(optimized, provinces, processing_stats, query_analysis, plan) ==
  IF optimized.raised # "none" THEN FailureResponse(optimized.raised, <<>>)
  ELSE [success |-> TRUE, content |-> optimized.content, provinces |-> provinces,
        query_type |-> query_analysis.intent.type,
        output_format |-> plan.output_format,
        processing_stats |-> processing_stats,
        query_plan |-> [strategy |-> plan.batch_strategy,
                        batches |-> Len(plan.batches)]]

OptimizedResponse(final_content, provinces, processing_stats, query_analysis, plan) ==
  SuccessResponse(IF Len(final_content) > 6000
                  THEN optimize_for_token_limit(final_content, 4000)
                  ELSE [raised |-> "none", content |-> final_content],
                  provinces, processing_stats, query_analysis, plan)

\* step 4 for a plan of several batches, then step 5
AggregatedResponse(query_analysis, plan, aggregated_result) ==
  IF aggregated_result.raised # "none"
  THEN FailureResponse(aggregated_result.raised, <<>>)
  ELSE OptimizedResponse(aggregated_result.content, aggregated_result.provinces,
                         aggregated_result.processing_stats, query_analysis, plan)

\* the test of execution_result["success"] and step 4
ExecutedResponse(query_analysis, plan, execution_result) ==
  IF ~execution_result.success
  THEN FailureResponse("query_failed", execution_result.content)
  ELSE IF Len(plan.batches) > 1
  THEN AggregatedResponse(query_analysis, plan,
                          aggregate_batch_results(execution_result.batch_results,
                                                  plan.output_format))
  ELSE OptimizedResponse(execution_result.content, execution_result.provinces,
                         [success_rate |-> Frac(1, 1), total_batches |-> 1,
                          successful_batches |-> 1],
                         query_analysis, plan)

\* steps 3 (after the batch loop) to 5 of query: what the caller receives
QueryResponse(query_analysis, plan, results) ==
  ExecutedResponse(query_analysis, plan, _aggregate_results(results, plan))

(***************************************************************************)
(* The system: GovernmentReportRAG answering queries                       *)
(***************************************************************************)
VARIABLES
  is_ready,      \* GovernmentReportRAG.is_ready
  config,        \* QUERY_CONFIG["batch_size"] and RETRIEVAL_CONFIG
  pc,            \* where the running call is
  user_query,    \* the argument of the running (or last) query
  query_plan,    \* its QueryPlan
  batch_index,   \* the loop position of execute_query_plan (1-based)
  results,       \* execute_query_plan's list of successful batch results
  attempted,     \* history: the _execute_single_batch calls made, in order
  response,      \* what query returned to its caller
  arg,           \* the argument of a call made on a component directly
  ret            \* what that call returned

vars == << is_ready, config, pc, user_query, query_plan, batch_index, results,
           attempted, response, arg, ret >>

NoQuery == Query({}, <<>>)

NoPlan ==
  [query_type |-> "none", batch_strategy |-> "none", batches |-> <<>>,
   expected_provinces |-> <<>>, output_format |-> "none"]

SystemConfig(batch_size, retrieval) == [batch_size |-> batch_size, retrieval |-> retrieval]

BatchSizes == {SmallBatchSize, batch_size_default}

\* the queries put to the running system
PipelineVocabulary == {"quanguo", "tongji", "liechu"}

PipelineQueries ==
  {Query(kw, Take(PROVINCES, n)) : kw \in KeywordSets(PipelineVocabulary),
                                   n \in 0..MaxMentions}

\* what may happen inside a batch; the long completion is an answer to a
\* whole-query batch
BatchOutcomes(batch) ==
  {Outcome("exception", <<>>), Outcome("api_error", <<>>),
   Outcome("ok", PlainContent), Outcome("ok", ListingContent)}
    \cup (IF batch.type \in {"direct", "all_provinces"}
          THEN {Outcome("ok", LongContent)} ELSE {})

\* the state no component call is using
Idle ==
  /\ user_query = NoQuery
  /\ query_plan = NoPlan
  /\ batch_index = 0
  /\ results = <<>>
  /\ attempted = <<>>
  /\ response = NoResponse

Init ==
  /\ is_ready = FALSE
  /\ config \in {SystemConfig(b, RetrievalConfig(1, 650, 650)) : b \in BatchSizes}
  /\ pc = "idle"
  /\ Idle
  /\ arg = <<>>
  /\ ret = <<>>

\* GovernmentReportRAG.setup_system: is_ready is set only on the path where
\* the index is available and the API answers
SetupSystem ==
  /\ pc = "idle"
  /\ \E ok \in BOOLEAN : is_ready' = (is_ready \/ ok)
  /\ UNCHANGED << config, pc, user_query, query_plan, batch_index, results,
                  attempted, response, arg, ret >>

\* query called while the system is not ready
QueryNotReady ==
  /\ pc = "idle"
  /\ ~is_ready
  /\ \E q \in PipelineQueries : user_query' = q
  /\ query_plan' = NoPlan
  /\ batch_index' = 0
  /\ results' = <<>>
  /\ attempted' = <<>>
  /\ response' = FailureResponse("not_ready", <<>>)
  /\ UNCHANGED << is_ready, config, pc, arg, ret >>

\* query, steps 1 and 2, and the start of execute_query_plan
StartQuery ==
  /\ pc = "idle"
  /\ is_ready
  /\ \E q \in PipelineQueries :
       /\ user_query' = q
       /\ query_plan' = create_query_plan(analyze_query(q), config.batch_size)
  /\ batch_index' = 1
  /\ results' = <<>>
  /\ attempted' = <<>>
  /\ response' = NoResponse
  /\ pc' = "executing"
  /\ UNCHANGED << is_ready, config, arg, ret >>

\* the calls of api_client.simple_chat one _execute_single_batch makes: the
\* call follows retrieval and prompt building, which may raise; simple_chat
\* posts one request and returns an APIResponse, failed or not, without
\* retrying and without raising
ApiCalls(outcome) == IF outcome.kind = "exception" THEN 0 ELSE 1

\* a variant that appends every batch result
AppendAnyResult(batch_results, batch_result) == Append(batch_results, batch_result)

\* if batch_result["success"]: results.append(batch_result)
AppendSuccessful(batch_results, batch_result) ==
  IF batch_result.success THEN Append(batch_results, batch_result) ELSE batch_results

\* a variant in which a batch that does not succeed ends the loop
ExecuteBatchAbort ==
  /\ pc = "executing"
  /\ batch_index <= Len(query_plan.batches)
  /\ \E outcome \in BatchOutcomes(query_plan.batches[batch_index]) :
       /\ results' = AppendSuccessful(
                        results,
                        _execute_single_batch(query_plan.batches[batch_index], SampleChunks,
                                              IdentityRanking, config.retrieval, outcome))
       /\ attempted' = Append(attempted, [batch |-> query_plan.batches[batch_index],
                                          index |-> batch_index,
                                          outcome |-> outcome.kind,
                                          api_calls |-> ApiCalls(outcome)])
       /\ batch_index' = IF outcome.kind = "ok" THEN batch_index + 1
                         ELSE Len(query_plan.batches) + 1
  /\ UNCHANGED << is_ready, config, pc, user_query, query_plan, response, arg, ret >>

\* one iteration of the loop of execute_query_plan
ExecuteBatch ==
  /\ pc = "executing"
  /\ batch_index <= Len(query_plan.batches)
  /\ \E outcome \in BatchOutcomes(query_plan.batches[batch_index]) :
       /\ results' = AppendSuccessful(
                        results,
                        _execute_single_batch(query_plan.batches[batch_index], SampleChunks,
                                              IdentityRanking, config.retrieval, outcome))
       /\ attempted' = Append(attempted, [batch |-> query_plan.batches[batch_index],
                                          index |-> batch_index,
                                          outcome |-> outcome.kind,
                                          api_calls |-> ApiCalls(outcome)])
  /\ batch_index' = batch_index + 1
  /\ UNCHANGED << is_ready, config, pc, user_query, query_plan, response, arg, ret >>

\* the end of execute_query_plan and steps 4 and 5 of query
FinishQuery ==
  /\ pc = "executing"
  /\ batch_index > Len(query_plan.batches)
  /\ response' = QueryResponse(analyze_query(user_query), query_plan, results)
  /\ pc' = "idle"
  /\ UNCHANGED << is_ready, config, user_query, query_plan, batch_index, results,
                  attempted, arg, ret >>

Next ==
  \/ SetupSystem
  \/ QueryNotReady
  \/ StartQuery
  \/ ExecuteBatch
  \/ FinishQuery

Spec == Init /\ [][Next]_vars

(***************************************************************************)
(* Calls made on one component directly, with the arguments in `arg` and   *)
(* the returned value in `ret`                                             *)
(***************************************************************************)
ComponentCall(call, args) ==
  /\ is_ready = FALSE
  /\ config = SystemConfig(batch_size_default, RetrievalConfig(1, 650, 650))
  /\ Idle
  /\ pc = call
  /\ arg \in args
  /\ ret = <<>>

Returns(value, done) ==
  /\ pc' = done
  /\ ret' = value
  /\ UNCHANGED << is_ready, config, user_query, query_plan, batch_index, results,
                  attempted, response, arg >>

(***************************************************************************)
(* QueryRouter.analyze_query and create_query_plan on every query          *)
(***************************************************************************)
InitPlan ==
  ComponentCall("plan_call",
                {[query |-> q, batch_size |-> b] : q \in Queries, b \in BatchSizes})

Planned(query_analysis, batch_size) ==
  [query_analysis |-> query_analysis,
   query_plan |-> create_query_plan(query_analysis, batch_size)]

AnalyzeAndPlan ==
  /\ pc = "plan_call"
  /\ Returns(Planned(analyze_query(arg.query), arg.batch_size), "plan_done")

NextPlan == AnalyzeAndPlan

SpecPlan == InitPlan /\ [][NextPlan]_vars

(***************************************************************************)
(* RAGRetriever: every retrieval operation, then truncation                *)
(***************************************************************************)
RetrievalQueries ==
  {Query(kw, Take(PROVINCES, n)) : kw \in KeywordSets({"quanguo", "duibi", "tongji"}),
                                   n \in {0, 1, 2, MaxMentions}}

\* the batches of the plans of these queries
SampleBatches ==
  UNION {Range(create_query_plan(analyze_query(q), b).batches) :
           q \in RetrievalQueries, b \in BatchSizes}

RetrievalRequests ==
  {[op |-> "smart_retrieve", query |-> q] : q \in RetrievalQueries}
    \cup {[op |-> "retrieve_for_all_provinces"]}
    \cup {[op |-> "retrieve_for_specific_provinces", provinces |-> Take(PROVINCES, n)] :
            n \in 1..3}
    \cup {[op |-> "retrieve_for_comparison", provinces |-> Take(PROVINCES, n)] :
            n \in 0..2}
    \cup {[op |-> "retrieve_by_topic", chunk_type |-> t] : t \in {"target", "general"}}
    \cup {[op |-> "batch", batch |-> b] : b \in SampleBatches}

InitRetrieve ==
  ComponentCall("retrieve_call",
                {[ranking |-> r, config |-> c, request |-> q] :
                   r \in Rankings, c \in RetrievalConfigs, q \in RetrievalRequests})

Retrieved(result) == [result |-> result]

SmartRetrieve ==
  /\ pc = "retrieve_call"
  /\ arg.request.op = "smart_retrieve"
  /\ Returns(Retrieved(smart_retrieve(SampleChunks, arg.ranking, arg.config,
                                      arg.request.query)), "retrieved")

RetrieveForAllProvinces ==
  /\ pc = "retrieve_call"
  /\ arg.request.op = "retrieve_for_all_provinces"
  /\ Returns(AllProvincesRetrieval(SampleChunks, arg.ranking, arg.config), "retrieved")

RetrieveForSpecificProvinces ==
  /\ pc = "retrieve_call"
  /\ arg.request.op = "retrieve_for_specific_provinces"
  /\ Returns(SpecificProvincesRetrieval(SampleChunks, arg.ranking, arg.config,
                                        arg.request.provinces),
             "retrieved")

RetrieveForComparison ==
  /\ pc = "retrieve_call"
  /\ arg.request.op = "retrieve_for_comparison"
  /\ Returns(ComparisonRetrieval(SampleChunks, arg.ranking, arg.config,
                                 arg.request.provinces),
             "retrieved")

RetrieveByTopic ==
  /\ pc = "retrieve_call"
  /\ arg.request.op = "retrieve_by_topic"
  /\ Returns(Retrieved(retrieve_by_topic(SampleChunks, arg.ranking, arg.config,
                                         arg.request.chunk_type)),
             "retrieved")

\* the retrieval step of _execute_single_batch
RetrieveForBatch ==
  /\ pc = "retrieve_call"
  /\ arg.request.op = "batch"
  /\ Returns(Retrieved(BatchRetrieval(arg.request.batch, SampleChunks, arg.ranking,
                                      arg.config)),
             "retrieved")

Truncated(original, max_chars) ==
  [result |-> _truncate_results(original, max_chars), original |-> original,
   max_chars |-> max_chars]

\* _truncate_results on a retrieved result, for any budget
TruncateResults ==
  /\ pc = "retrieved"
  /\ \E max_chars \in Budgets : Returns(Truncated(ret.result, max_chars), "truncated")

NextRetrieve ==
  \/ SmartRetrieve
  \/ RetrieveForAllProvinces
  \/ RetrieveForSpecificProvinces
  \/ RetrieveForComparison
  \/ RetrieveByTopic
  \/ RetrieveForBatch
  \/ TruncateResults

SpecRetrieve == InitRetrieve /\ [][NextRetrieve]_vars

(***************************************************************************)
(* ResultAggregator._deduplicate_targets applied once and then again       *)
(***************************************************************************)
MaxItems == 3         \* a list holds at most this many items
MaxItemLen == 3       \* an item has at most this many characters

\* the characters "a" and "b"
ItemAlphabet == {97, 98}

\* "bbaaaa" and "baaaaa": items long enough for five characters out of six
\* to exceed the 0.8 threshold
LongItems == {<<98, 98, 97, 97, 97, 97>>, <<98, 97, 97, 97, 97, 97>>}

Items == UNION {[1..n -> ItemAlphabet] : n \in 1..MaxItemLen} \cup LongItems

ItemLists == UNION {[1..n -> Items] : n \in 0..MaxItems}

InitDedup == ComponentCall("dedup_call", {[targets |-> L] : L \in ItemLists})

DedupOnce ==
  /\ pc = "dedup_call"
  /\ Returns([once |-> _deduplicate_targets(arg.targets)], "dedup_once")

DedupAgain ==
  /\ pc = "dedup_once"
  /\ Returns([once |-> ret.once, twice |-> _deduplicate_targets(ret.once)], "dedup_twice")

NextDedup == DedupOnce \/ DedupAgain

SpecDedup == InitDedup /\ [][NextDedup]_vars

(***************************************************************************)
(* ResultAggregator.aggregate_batch_results on lists of batch results      *)
(***************************************************************************)
MaxBatchResults == 3  \* a list holds at most this many batch results

\* what _execute_single_batch returns for a batch of two provinces
SampleBatchResults ==
  {_execute_single_batch(Batch("province_chunk", NoRegion, << "Beijing", "Tianjin" >>,
                               ChunkBatchQuery(<< "Beijing", "Tianjin" >>)),
                         SampleChunks, IdentityRanking, RetrievalConfig(1, 650, 650), o) :
     o \in {Outcome("ok", ListingContent), Outcome("ok", SecondListingContent),
            Outcome("ok", PlainContent),
            Outcome("api_error", <<>>), Outcome("exception", <<>>)}}

OutputFormats == {"province_list", "detailed", "comparison", "statistics"}

InitAggregate ==
  ComponentCall("aggregate_call",
                {[batch_results |-> rs, output_format |-> f] :
                   rs \in UNION {[1..n -> SampleBatchResults] : n \in 0..MaxBatchResults},
                   f \in OutputFormats})

AggregateBatchResults ==
  /\ pc = "aggregate_call"
  /\ Returns(aggregate_batch_results(arg.batch_results, arg.output_format), "aggregated")

NextAggregate == AggregateBatchResults

SpecAggregate == InitAggregate /\ [][NextAggregate]_vars

(***************************************************************************)
(* RAGRetriever.smart_retrieve, general branch, on a store larger than the *)
(* 60 chunks the branch searches for                                       *)
(***************************************************************************)
ReportChunks == 3    \* chunks of each report

\* enough reports for a store of more than the 60 chunks searched for
ReportCount == (60 \div ReportChunks) + 1

\* the chunks DocumentProcessor makes of one report: chunk_id counts from 0
\* and start_pos grows with it
ReportChunk(d, k) ==
  DocumentChunk(PROVINCES[d] \o "_" \o ToString(k), PROVINCES[d],
                [head |-> PROVINCES[d] \o ToString(k), tail |-> "full"], 300, 1,
                "general", 300, PROVINCES[d] \o ".md", 250 * k, k)

ReportStore ==
  [i \in 1..(ReportCount * ReportChunks) |->
     ReportChunk(((i - 1) \div ReportChunks) + 1, (i - 1) % ReportChunks)]

\* nearest-first orders of the whole store: the stored order and its reverse,
\* started at any chunk
Rotated(n, r, reversed) ==
  [i \in 1..n |-> IF reversed THEN n - ((i - 1 + r) % n) ELSE ((i - 1 + r) % n) + 1]

ReportRankings ==
  {Rotated(Len(ReportStore), r, b) : r \in 0..(Len(ReportStore) - 1), b \in BOOLEAN}

\* nothing fits; two chunks and a sliced third; twenty chunks; everything
GeneralBudgets == {0, 850, 6000, 100000}

InitGeneral ==
  ComponentCall("general_call",
                {[ranking |-> r, max_context_chars |-> m] :
                   r \in ReportRankings, m \in GeneralBudgets})

\* smart_retrieve for a query without keyword or province: the primary hits
\* of the branch beside what smart_retrieve returns
GeneralRetrieval(chunks, ranking, max_context_chars) ==
  [primary_chunks |-> search(chunks, ranking, 60, NoFilter, NoFilter),
   result |-> smart_retrieve(chunks, ranking,
                             RetrievalConfig(1, max_context_chars, max_context_chars),
                             NoQuery)]

SmartRetrieveGeneral ==
  /\ pc = "general_call"
  /\ Returns(GeneralRetrieval(ReportStore, arg.ranking, arg.max_context_chars),
             "general_done")

NextGeneral == SmartRetrieveGeneral

SpecGeneral == InitGeneral /\ [][NextGeneral]_vars

(***************************************************************************)
(* ResultAggregator._parse_province_content and _extract_targets_from_line *)
(* on completion texts                                                     *)
(***************************************************************************)
MaxLines == 2     \* a completion text has at most this many lines
MaxPieces == 2    \* a line has at most this many separated pieces

\* "北京：推进产业升级目标", "天津：完成经济增长任务", "完成经济增长任务",
\* "加强与北京协同发展合作", "推进科技创新发展建设", "  "
SampleLines ==
  { <<21271, 20140, 65306, 25512, 36827, 20135, 19994, 21319, 32423, 30446, 26631>>,
    <<22825, 27941, 65306, 23436, 25104, 32463, 27982, 22686, 38271, 20219, 21153>>,
    <<23436, 25104, 32463, 27982, 22686, 38271, 20219, 21153>>,
    <<21152, 24378, 19982, 21271, 20140, 21327, 21516, 21457, 23637, 21512, 20316>>,
    <<25512, 36827, 31185, 25216, 21019, 26032, 21457, 23637, 24314, 35774>>,
    <<32, 32>> }

SampleContents ==
  {Join(lines, <<10>>) : lines \in UNION {[1..n -> SampleLines] : n \in 0..MaxLines}}

\* "推进产业升级目标", "保护生态环境", "稳就业", "1. 完成经济增长任务",
\* "全年粮食总产量保持稳定水平", "保护生态环境，稳就业", "促发展"
SamplePieces ==
  { <<25512, 36827, 20135, 19994, 21319, 32423, 30446, 26631>>,
    <<20445, 25252, 29983, 24577, 29615, 22659>>,
    <<31283, 23601, 19994>>,
    <<49, 46, 32, 23436, 25104, 32463, 27982, 22686, 38271, 20219, 21153>>,
    <<20840, 24180, 31918, 39135, 24635, 20135, 37327, 20445, 25345, 31283, 23450, 27700,
      24179>>,
    <<20445, 25252, 29983, 24577, 29615, 22659, 65292, 31283, 23601, 19994>>,
    <<20419, 21457, 23637>> }

\* nothing, or "北京："
SamplePrefixes == {<<>>, <<21271, 20140, 65306>>}

\* lines of pieces joined by '、' or by '，', with or without a province
SampleTargetLines ==
  {prefix \o Join(pieces, << sep >>) :
     prefix \in SamplePrefixes, sep \in {12289, 65292},
     pieces \in UNION {[1..n -> SamplePieces] : n \in 1..MaxPieces}}

InitParse ==
  ComponentCall("parse_call",
                {[op |-> "parse", content |-> c] : c \in SampleContents}
                  \cup {[op |-> "extract", line |-> l] : l \in SampleTargetLines})

ParseProvinceContent ==
  /\ pc = "parse_call"
  /\ arg.op = "parse"
  /\ Returns([province_info |-> _parse_province_content(arg.content)], "parsed")

ExtractTargetsFromLine ==
  /\ pc = "parse_call"
  /\ arg.op = "extract"
  /\ Returns([targets |-> _extract_targets_from_line(arg.line)], "extracted")

NextParse == ParseProvinceContent \/ ExtractTargetsFromLine

SpecParse == InitParse /\ [][NextParse]_vars

(***************************************************************************)
(* ResultAggregator.optimize_for_token_limit on short texts and budgets    *)
(***************************************************************************)
MaxTokens == 16   \* max_tokens is at most this

InitOptimize ==
  ComponentCall("optimize_call",
                {[content |-> c, max_tokens |-> m] :
                   c \in SampleContents, m \in 0..MaxTokens})

OptimizeForTokenLimit ==
  /\ pc = "optimize_call"
  /\ Returns(optimize_for_token_limit(arg.content, arg.max_tokens), "optimized")

NextOptimize == OptimizeForTokenLimit

SpecOptimize == InitOptimize /\ [][NextOptimize]_vars

(***************************************************************************)
(* One batch of a plan, from its retrieval to its completion call          *)
(***************************************************************************)
BatchConfigs == {RetrievalConfig(1, t, o) : t \in {0, 650}, o \in {0, 650}}

InitBatch ==
  ComponentCall("batch_call",
                {[batch |-> b, ranking |-> r, config |-> c, output_format |-> f] :
                   b \in SampleBatches, r \in Rankings, c \in BatchConfigs,
                   f \in {"province_list", "statistics"}})

\* _execute_single_batch up to the prompt: retrieval by batch type,
\* format_context, _build_prompt
PrepareBatch ==
  /\ pc = "batch_call"
  /\ LET retrieval_result == BatchRetrieval(arg.batch, SampleChunks, arg.ranking,
                                            arg.config)
     IN Returns([retrieval_result |-> retrieval_result,
                 prompt |-> _build_prompt(arg.batch.query,
                                          format_context(retrieval_result),
                                          arg.output_format),
                 api_calls |-> 0],
                "prompted")

\* the one simple_chat call of the batch and the dict the batch returns
CompleteBatch ==
  /\ pc = "prompted"
  /\ \E outcome \in {Outcome("ok", PlainContent), Outcome("ok", ListingContent),
                      Outcome("api_error", <<>>)} :
       Returns([retrieval_result |-> ret.retrieval_result, prompt |-> ret.prompt,
                api_calls |-> ret.api_calls + 1, outcome |-> outcome,
                batch_result |-> _execute_single_batch(arg.batch, SampleChunks,
                                                       arg.ranking, arg.config,
                                                       outcome)],
               "batch_done")

NextBatch == PrepareBatch \/ CompleteBatch

SpecBatch == InitBatch /\ [][NextBatch]_vars

(***************************************************************************)
(* GovernmentReportRAG: setup_system calls between queries, with the value *)
(* the most recent call returned in `ret`                                  *)
(***************************************************************************)
\* what a setup_system call meets: its argument, the state of the vector
\* store and of the data directory, and what the steps it calls answer
SetupEnvironments ==
  [force_rebuild : BOOLEAN, is_built : BOOLEAN, processed : BOOLEAN,
   documents : BOOLEAN, build_index : BOOLEAN, save_index : BOOLEAN,
   load_index : BOOLEAN, test_connection : BOOLEAN, raises : BOOLEAN]

\* GovernmentReportRAG.setup_system: the value it returns, whether the index
\* was built and saved or loaded, and how the connection test ended; an
\* exception in any step is caught and False is returned
setup_system(env) ==
  LET rebuild == env.force_rebuild \/ ~env.is_built
      chunks == IF ~env.processed \/ env.force_rebuild THEN env.documents ELSE TRUE
      index == IF rebuild THEN chunks /\ env.build_index /\ env.save_index
               ELSE env.load_index
  IN IF env.raises \/ ~index
     THEN [returned |-> FALSE, index |-> FALSE, connection |-> "untested"]
     ELSE IF ~env.test_connection
          THEN [returned |-> FALSE, index |-> TRUE, connection |-> "failed"]
          ELSE [returned |-> TRUE, index |-> TRUE, connection |-> "passed"]

SetupOutcomes == {setup_system(env) : env \in SetupEnvironments}

InitReady ==
  /\ is_ready = FALSE
  /\ config = SystemConfig(batch_size_default, RetrievalConfig(1, 650, 650))
  /\ pc = "idle"
  /\ Idle
  /\ arg = <<>>
  /\ ret = <<>>

\* one call of setup_system: is_ready is assigned only on the path that
\* returns True
SetupSystemReturns ==
  /\ pc = "idle"
  /\ \E outcome \in SetupOutcomes :
       /\ is_ready' = IF outcome.returned THEN TRUE ELSE is_ready
       /\ ret' = outcome
  /\ UNCHANGED << config, pc, user_query, query_plan, batch_index, results,
                  attempted, response, arg >>

NextReady ==
  \/ SetupSystemReturns
  \/ QueryNotReady
  \/ StartQuery
  \/ ExecuteBatch
  \/ FinishQuery

SpecReady == InitReady /\ [][NextReady]_vars

(***************************************************************************)
(* SiliconFlowClient.batch_process (api_client.py)                         *)
(***************************************************************************)
MaxRetries == 3      \* max_retries ranges over 0..MaxRetries
MaxQueries == 2      \* a call passes at most this many queries

BatchProcessQueries == UNION {[1..n -> {"q1", "q2"}] : n \in 0..MaxQueries}

\* the APIResponse of one simple_chat call: the query it answers and the
\* number of the attempt that produced it
ChatResponse(query, success, attempt) ==
  [query |-> query, success |-> success, attempt |-> attempt]

\* the loop variables at the start of the for loop
LoopStart(queries) ==
  [i |-> 1, retry_count |-> 0, results |-> <<>>,
   attempts |-> [k \in 1..Len(queries) |-> <<>>]]

\* the for loop goes on to the next query
NextIteration(loop, recorded, made) ==
  [i |-> loop.i + 1, retry_count |-> 0, results |-> recorded, attempts |-> made]

\* one pass through the body of `while retry_count < max_retries`: a
\* simple_chat call, then break on success, or count the failure and record
\* the response when the count reaches max_retries
WhileBody(loop, query, max_retries, success) ==
  LET answer == ChatResponse(query, success, loop.retry_count + 1)
      made == [loop.attempts EXCEPT ![loop.i] = Append(@, success)]
  IN IF success
     THEN NextIteration(loop, Append(loop.results, answer), made)
     ELSE IF loop.retry_count + 1 < max_retries
          THEN [loop EXCEPT !.retry_count = @ + 1, !.attempts = made]
          ELSE NextIteration(loop, Append(loop.results, answer), made)

InitBatchProcess ==
  /\ ComponentCall("batch_process",
                   {[queries |-> qs, max_retries |-> m] :
                      qs \in BatchProcessQueries, m \in 0..MaxRetries})

\* the call enters the for loop
EnterLoop ==
  /\ pc = "batch_process"
  /\ Returns(LoopStart(arg.queries), "for_loop")

\* one simple_chat call inside the while loop
SimpleChatAttempt ==
  /\ pc = "for_loop"
  /\ ret.i <= Len(arg.queries)
  /\ ret.retry_count < arg.max_retries
  /\ \E success \in BOOLEAN :
       Returns(WhileBody(ret, arg.queries[ret.i], arg.max_retries, success), "for_loop")

\* the while condition is false when the query's turn comes
WhileNotEntered ==
  /\ pc = "for_loop"
  /\ ret.i <= Len(arg.queries)
  /\ ~(ret.retry_count < arg.max_retries)
  /\ Returns(NextIteration(ret, ret.results, ret.attempts), "for_loop")

\* return results
ReturnResults ==
  /\ pc = "for_loop"
  /\ ret.i > Len(arg.queries)
  /\ Returns(ret, "batch_processed")

NextBatchProcess ==
  \/ EnterLoop
  \/ SimpleChatAttempt
  \/ WhileNotEntered
  \/ ReturnResults

\* every simple_chat call returns (the request has a timeout) and every
\* sleep ends, so the loop keeps taking steps
SpecBatchProcess ==
  InitBatchProcess /\ [][NextBatchProcess]_vars /\ WF_vars(NextBatchProcess)

(***************************************************************************)
(* Properties of query planning (SpecPlan)                                 *)
(***************************************************************************)
\* C1, as stated: for every query that mentions n > 5 known provinces,
\* create_query_plan produces exactly ceil(n / batch_size) batches, and the
\* batches' province lists, concatenated in batch order, reproduce the
\* provinces in the order the query mentions them.
C1_ChunksInMentionOrder ==
  (pc = "plan_done" /\ Len(arg.query.mentions) > 5) =>
    LET n == Len(arg.query.mentions)
        batches == ret.query_plan.batches
    IN /\ (Len(batches) - 1) * arg.batch_size < n
       /\ n <= Len(batches) * arg.batch_size
       /\ Flatten([i \in 1..Len(batches) |-> batches[i].provinces]) = arg.query.mentions

\* C1, amended: for every query that mentions n > 5 known provinces and holds
\* no comprehensive-scope keyword, create_query_plan produces exactly
\* ceil(n / batch_size) batches, and the batches' province lists, concatenated
\* in batch order, are the mentioned provinces in the order of the PROVINCES
\* table.
C1_ChunksInTableOrder ==
  (/\ pc = "plan_done"
   /\ Len(arg.query.mentions) > 5
   /\ arg.query.kw \cap {"suoyou_shengfen", "ge_sheng", "31sheng", "quanguo"} = {}) =>
    LET n == Len(arg.query.mentions)
        batches == ret.query_plan.batches
    IN /\ (Len(batches) - 1) * arg.batch_size < n
       /\ n <= Len(batches) * arg.batch_size
       /\ Flatten([i \in 1..Len(batches) |-> batches[i].provinces])
            = SelectSeq(PROVINCES, LAMBDA p : p \in Range(arg.query.mentions))

\* a plan of several chunk batches, the last one shorter, for a query that
\* mentions its provinces against the table order
C1_Witness ==
  /\ pc = "plan_done"
  /\ Len(arg.query.mentions) > 5
  /\ arg.query.kw \cap {"suoyou_shengfen", "ge_sheng", "31sheng", "quanguo"} = {}
  /\ arg.query.mentions[1] # PROVINCES[1]
  /\ Len(ret.query_plan.batches) >= 2
  /\ Len(ret.query_plan.batches[Len(ret.query_plan.batches)].provinces) < arg.batch_size

\* C10: the intent type is the first match of the ordered rules:
\* comprehensive keyword -> all_provinces; else exactly one province
\* mentioned -> single_province; else more than one -> multi_province; else
\* comparison keyword -> comparison; else statistics keyword -> statistics;
\* else general.
C10_FirstMatchWins ==
  pc = "plan_done" =>
    LET kw == arg.query.kw
        n == Cardinality(Range(arg.query.mentions))
    IN ret.query_analysis.intent.type =
         (IF kw \cap {"suoyou_shengfen", "ge_sheng", "31sheng", "quanguo"} # {}
            THEN "all_provinces"
          ELSE IF n = 1 THEN "single_province"
          ELSE IF n > 1 THEN "multi_province"
          ELSE IF kw \cap {"duibi", "bijiao"} # {} THEN "comparison"
          ELSE IF kw \cap {"tongji", "huizong", "zongjie"} # {} THEN "statistics"
          ELSE "general")

\* a comprehensive keyword overriding province mentions and a comparison keyword
C10_Witness ==
  /\ pc = "plan_done"
  /\ arg.query.kw = {"quanguo", "duibi"}
  /\ Len(arg.query.mentions) >= 2
  /\ ret.query_analysis.intent.type = "all_provinces"

(***************************************************************************)
(* Properties of retrieval (SpecRetrieve)                                  *)
(***************************************************************************)
\* C2: every RetrievalResult a retrieval operation returns, and every
\* result of truncation, has total_chars equal to the sum of its chunks'
\* char_count and provinces equal to the set of its chunks' provinces.
C2_ResultConsistent ==
  pc \in {"retrieved", "truncated"} =>
    /\ ret.result.total_chars
         = SumSeq([i \in 1..Len(ret.result.chunks) |-> ret.result.chunks[i].char_count])
    /\ ret.result.provinces
         = {ret.result.chunks[i].province : i \in 1..Len(ret.result.chunks)}

\* a truncation that dropped every chunk of some province and kept others
C2_Witness ==
  /\ pc = "truncated"
  /\ ret.result.chunks # <<>>
  /\ ret.result.provinces # ret.original.provinces
  /\ ret.result.total_chars < ret.original.total_chars

\* C4: for every result and every budget max_chars, the truncated result
\* has total_chars <= max_chars, and at most one of its chunks is not a chunk
\* of the original but a sliced prefix of one; smart_retrieve's result is
\* within the budget of its intent.
C4_TruncationWithinBudget ==
  /\ pc = "truncated" =>
       LET sliced == {i \in 1..Len(ret.result.chunks) :
                        ret.result.chunks[i] \notin Range(ret.original.chunks)}
       IN /\ ret.result.total_chars <= ret.max_chars
          /\ Cardinality(sliced) <= 1
          /\ \A i \in sliced :
               /\ ret.result.chunks[i].truncated
               /\ \E o \in Range(ret.original.chunks) :
                    /\ o.id = ret.result.chunks[i].id
                    /\ o.content.head = ret.result.chunks[i].content.head
                    /\ ret.result.chunks[i].char_count < o.char_count
  /\ (pc = "retrieved" /\ arg.request.op = "smart_retrieve") =>
       ret.result.total_chars
         <= MaxContextChars(arg.config, identify_query_intent(arg.request.query).type)

\* a truncation that sliced one chunk to fill the budget
C4_Witness ==
  /\ pc = "truncated"
  /\ ret.max_chars > 0
  /\ \E i \in 1..Len(ret.result.chunks) :
       /\ ret.result.chunks[i] \notin Range(ret.original.chunks)
       /\ i > 1

\* C5, as stated: every RetrievalResult batch execution hands to prompt
\* building is within the character budget of the retrieval path that
\* produced it, for every batch kind (all_provinces, province_group,
\* province_chunk, direct).
C5_BatchRetrievalWithinBudget ==
  (pc = "retrieved" /\ arg.request.op = "batch") =>
    LET batch == arg.request.batch
        path_max_chars ==
          IF batch.type \in {"province_group", "province_chunk"}
          THEN IF Len(batch.provinces) = 1 THEN arg.config.single_province.max_chars
               ELSE arg.config.multi_province.max_chars
          ELSE MaxContextChars(arg.config, identify_query_intent(batch.query).type)
    IN ret.result.total_chars <= path_max_chars

(***************************************************************************)
(* Properties of deduplication (SpecDedup)                                 *)
(***************************************************************************)
\* C3, as stated: for every item list L, deduplicating the deduplicated list
\* yields the same item set as deduplicating L once.
C3_DedupIdempotent ==
  pc = "dedup_twice" => Range(ret.twice) = Range(ret.once)

(***************************************************************************)
(* Properties of aggregation (SpecAggregate)                               *)
(***************************************************************************)
\* C9: when no batch result is successful (the empty list included),
\* aggregate_batch_results returns the fixed "no valid results" message, an
\* empty province list, zero targets and a success_rate of 0.
C9_NoSuccessfulResult ==
  (pc = "aggregated" /\ \A i \in 1..Len(arg.batch_results) : ~arg.batch_results[i].success) =>
    /\ ret.raised = "none"
    /\ ret.content = NoValidResultsMessage
    /\ ret.provinces = <<>>
    /\ ret.total_targets = 0
    /\ ret.processing_stats.success_rate.num = 0

\* an aggregation of a non-empty list of failed batch results
C9_Witness ==
  /\ pc = "aggregated"
  /\ Len(arg.batch_results) >= 2
  /\ \A i \in 1..Len(arg.batch_results) : ~arg.batch_results[i].success
  /\ ret.content = NoValidResultsMessage

(***************************************************************************)
(* Properties of the running system (Spec)                                 *)
(***************************************************************************)
\* query has returned for a plan it executed
QueryFinished == pc = "idle" /\ query_plan # NoPlan

\* C6, as stated: when some but not all batches of a plan succeed, query
\* returns success with a success_rate strictly below 1.0 that equals the
\* successful batches divided by the batches of the plan.
C6_PartialSuccessRate ==
  (QueryFinished /\ 0 < Len(results) /\ Len(results) < Len(query_plan.batches)) =>
    /\ response.success
    /\ response.processing_stats.success_rate.num
         < response.processing_stats.success_rate.den
    /\ response.processing_stats.success_rate.num * Len(query_plan.batches)
         = Len(results) * response.processing_stats.success_rate.den

\* C7, as stated: with the system ready, query reports failure only when no
\* batch of the plan succeeded; with at least one successful batch it returns
\* success.
C7_FailsOnlyWithoutSuccess ==
  QueryFinished => (response.success <=> results # <<>>)

\* C8: executing a plan attempts every batch exactly once, in plan order,
\* whatever the outcome of earlier batches: the calls made so far are the
\* first batches of the plan, in order, and when the plan has been executed
\* they are all its batches.
C8_EveryBatchOnceInOrder ==
  /\ Len(attempted) <= Len(query_plan.batches)
  /\ \A i \in 1..Len(attempted) :
       /\ attempted[i].index = i
       /\ attempted[i].batch = query_plan.batches[i]
  /\ pc = "executing" => batch_index = Len(attempted) + 1
  /\ QueryFinished => Len(attempted) = Len(query_plan.batches)

\* a finished plan whose first batch raised, whose second got an API error
\* and whose later batches were still attempted
C8_Witness ==
  /\ QueryFinished
  /\ Len(attempted) >= 3
  /\ attempted[1].outcome = "exception"
  /\ attempted[2].outcome = "api_error"
  /\ attempted[Len(attempted)].outcome = "ok"

(***************************************************************************)
(* Further properties of query planning (SpecPlan)                         *)
(***************************************************************************)
\* C11, as stated: a query with a comparison keyword that names exactly two
\* known provinces, and holds no comprehensive-scope or list keyword, gets
\* type comparison and output_format comparison.
C11_ComparisonOfTwo ==
  (/\ pc = "plan_done"
   /\ arg.query.kw \cap {"duibi", "bijiao"} # {}
   /\ Cardinality(Range(arg.query.mentions)) = 2
   /\ arg.query.kw \cap {"suoyou_shengfen", "ge_sheng", "31sheng", "quanguo"} = {}
   /\ arg.query.kw \cap {"liechu", "lieju"} = {}) =>
    /\ ret.query_analysis.intent.type = "comparison"
    /\ ret.query_analysis.output_format = "comparison"

\* C11, amended: a query with a comparison keyword that names exactly two
\* known provinces, and holds no comprehensive-scope, list or detail keyword,
\* gets type multi_province (the mentions decide before the comparison
\* keyword) and output_format comparison.
C11_ComparisonOfTwoIsMulti ==
  (/\ pc = "plan_done"
   /\ arg.query.kw \cap {"duibi", "bijiao"} # {}
   /\ Cardinality(Range(arg.query.mentions)) = 2
   /\ arg.query.kw \cap {"suoyou_shengfen", "ge_sheng", "31sheng", "quanguo"} = {}
   /\ arg.query.kw \cap {"liechu", "lieju"} = {}
   /\ arg.query.kw \cap {"xiangxi", "juti", "shenru"} = {}) =>
    /\ ret.query_analysis.intent.type = "multi_province"
    /\ ret.query_analysis.output_format = "comparison"

\* a comparison of two provinces that also holds a statistics keyword
C11_Witness ==
  /\ pc = "plan_done"
  /\ arg.query.kw = {"duibi", "tongji"}
  /\ Cardinality(Range(arg.query.mentions)) = 2
  /\ ret.query_analysis.intent.type = "multi_province"
  /\ ret.query_analysis.output_format = "comparison"

\* C12, as stated: a query naming exactly three known provinces and no
\* comprehensive-scope keyword is multi_province and is planned as exactly
\* one batch whose province list is those three provinces in order.
C12_ThreeInOneBatchList ==
  (/\ pc = "plan_done"
   /\ Cardinality(Range(arg.query.mentions)) = 3
   /\ arg.query.kw \cap {"suoyou_shengfen", "ge_sheng", "31sheng", "quanguo"} = {}) =>
    /\ ret.query_analysis.intent.type = "multi_province"
    /\ Len(ret.query_plan.batches) = 1
    /\ ret.query_plan.batches[1].provinces = arg.query.mentions

\* C12, amended: such a query is multi_province and is planned as exactly one
\* direct batch that carries the original query and no province list; the
\* three provinces are the plan's expected_provinces, in the order of the
\* PROVINCES table.
C12_ThreeInOneDirectBatch ==
  (/\ pc = "plan_done"
   /\ Cardinality(Range(arg.query.mentions)) = 3
   /\ arg.query.kw \cap {"suoyou_shengfen", "ge_sheng", "31sheng", "quanguo"} = {}) =>
    /\ ret.query_analysis.intent.type = "multi_province"
    /\ Len(ret.query_plan.batches) = 1
    /\ ret.query_plan.batches[1].type = "direct"
    /\ ret.query_plan.batches[1].query = arg.query
    /\ ret.query_plan.batches[1].provinces = <<>>
    /\ ret.query_plan.expected_provinces
         = SelectSeq(PROVINCES, LAMBDA p : p \in Range(arg.query.mentions))

\* three provinces named against the table order, planned with the small
\* batch size
C12_Witness ==
  /\ pc = "plan_done"
  /\ Len(arg.query.mentions) = 3
  /\ arg.query.mentions[1] # PROVINCES[1]
  /\ arg.batch_size = SmallBatchSize
  /\ ret.query_plan.batch_strategy = "single_query"
  /\ ret.query_plan.expected_provinces # arg.query.mentions

\* C13: the batch strategy is province_groups iff the type is all_provinces
\* and the complexity high; single_batch iff the type is all_provinces and
\* the complexity not high; province_chunks iff the type is not
\* all_provinces and more than 5 provinces are mentioned; single_query, one
\* batch carrying the original query, in every other case.
C13_StrategyRules ==
  pc = "plan_done" =>
    LET type == ret.query_analysis.intent.type
        high == ret.query_analysis.complexity = "high"
        n == Cardinality(Range(arg.query.mentions))
        strategy == ret.query_plan.batch_strategy
    IN /\ strategy \in {"province_groups", "single_batch", "province_chunks", "single_query"}
       /\ strategy = "province_groups" <=> (type = "all_provinces" /\ high)
       /\ strategy = "single_batch" <=> (type = "all_provinces" /\ ~high)
       /\ strategy = "province_chunks" <=> (type # "all_provinces" /\ n > 5)
       /\ strategy = "single_query" <=> (type # "all_provinces" /\ n <= 5)
       /\ strategy = "single_query" =>
            /\ Len(ret.query_plan.batches) = 1
            /\ ret.query_plan.batches[1].query = arg.query

\* an all_provinces query of medium complexity that names more than 5
\* provinces: one batch, no chunks
C13_Witness ==
  /\ pc = "plan_done"
  /\ Cardinality(Range(arg.query.mentions)) > 5
  /\ ret.query_analysis.intent.type = "all_provinces"
  /\ ret.query_analysis.complexity = "medium"
  /\ ret.query_plan.batch_strategy = "single_batch"
  /\ Len(ret.query_plan.batches) = 1

\* C14: under the province_groups strategy the plan has one batch per region
\* group, and the batches' province lists partition the PROVINCES table:
\* every province of the table is at exactly one place of exactly one list,
\* and no list holds a province that is not in the table.
C14_GroupsPartitionProvinces ==
  (pc = "plan_done" /\ ret.query_plan.batch_strategy = "province_groups") =>
    LET batches == ret.query_plan.batches
        places(p) == {ij \in UNION {{<< i, j >> : j \in 1..Len(batches[i].provinces)} :
                                      i \in 1..Len(batches)} :
                        batches[ij[1]].provinces[ij[2]] = p}
    IN /\ Len(batches) = Len(economic_zones)
       /\ \A i \in 1..Len(batches) :
            /\ batches[i].type = "province_group"
            /\ batches[i].region = economic_zones[i].region
            /\ Range(batches[i].provinces) \subseteq Range(PROVINCES)
       /\ \A i, k \in 1..Len(batches) : batches[i].region = batches[k].region => i = k
       /\ \A p \in Range(PROVINCES) : Cardinality(places(p)) = 1

\* a plan of region groups
C14_Witness ==
  /\ pc = "plan_done"
  /\ ret.query_plan.batch_strategy = "province_groups"
  /\ Len(ret.query_plan.batches) = 4
  /\ Len(ret.query_plan.batches[4].provinces) = 3

(***************************************************************************)
(* Further properties of the running system (Spec)                         *)
(***************************************************************************)
\* C15: executing one batch calls the completion service at most once and
\* never again for the same batch; a batch whose completion failed or timed
\* out, or that raised, leaves no result: the results passed to aggregation
\* are those of the batches that were answered, in order.
C15_OneCallNoRetry ==
  LET answered == SelectSeq(attempted, LAMBDA a : a.outcome = "ok")
  IN /\ \A i \in 1..Len(attempted) :
          /\ attempted[i].api_calls <= 1
          /\ attempted[i].outcome = "api_error" => attempted[i].api_calls = 1
     /\ Len(results) = Len(answered)
     /\ \A k \in 1..Len(results) :
          /\ results[k].success
          /\ results[k].batch_info = answered[k].batch

\* a finished plan in which a completion failed after its one call and a
\* later batch was answered
C15_Witness ==
  /\ QueryFinished
  /\ Len(attempted) >= 2
  /\ attempted[1].outcome = "api_error"
  /\ attempted[1].api_calls = 1
  /\ Len(results) = Len(attempted) - 1

(***************************************************************************)
(* Properties of the aggregation under reordering (SpecAggregate)          *)
(***************************************************************************)
\* the list with its batch results in the order f
Reordered(batch_results, f) == [i \in DOMAIN batch_results |-> batch_results[f[i]]]

\* C16: aggregation is insensitive to batch order: for every list of batch
\* results and every permutation of it, aggregate_batch_results returns the
\* same content, province list, target count and statistics (the format type
\* is the one asked for in both).
C16_OrderInsensitive ==
  pc = "aggregated" =>
    \A f \in Permutations(DOMAIN arg.batch_results) :
      aggregate_batch_results(Reordered(arg.batch_results, f), arg.output_format) = ret

(***************************************************************************)
(* Properties of the deduplicated list (SpecDedup)                         *)
(***************************************************************************)
\* the similarity of the pair exceeds 0.8 whichever of the two items is
\* taken as text1 (_calculate_similarity counts the characters of text1)
Similar(a, b) ==
  /\ Above08(_calculate_similarity(a, b))
  /\ Above08(_calculate_similarity(b, a))

\* C17: after deduplicating an entity's items no two retained items have
\* similarity > 0.8, and of two input items of different lengths whose
\* similarity exceeds 0.8 the shorter one is not in the output.
C17_NoSimilarPairRetained ==
  pc = "dedup_once" =>
    /\ \A i, j \in 1..Len(ret.once) :
         i # j => ~Similar(ret.once[i], ret.once[j])
    /\ \A i, j \in 1..Len(arg.targets) :
         (Similar(arg.targets[i], arg.targets[j])
            /\ Len(arg.targets[i]) > Len(arg.targets[j]))
           => arg.targets[j] \notin Range(ret.once)

(***************************************************************************)
(* Properties of truncation under a small budget (SpecRetrieve)            *)
(***************************************************************************)
\* C18: truncating a non-empty RetrievalResult never yields an empty result:
\* when the budget is too small for any chunk to fit, the single
\* highest-scoring chunk is included regardless of the budget.
C18_TruncationNeverEmpty ==
  (pc = "truncated" /\ ret.original.chunks # <<>>) =>
    /\ ret.result.chunks # <<>>
    /\ (\A c \in Range(ret.original.chunks) : c.char_count > ret.max_chars)
         => SortByScoreDesc(ret.original.chunks)[1] \in Range(ret.result.chunks)

(***************************************************************************)
(* Properties of the returned content (Spec)                               *)
(***************************************************************************)
\* C19: for every successful query the content returned to the caller is the
\* ResultAggregator's rendering of the successful batch outputs in the
\* plan's output format (shortened by step 5 when it is too long), whatever
\* the number of batches in the plan.
C19_ContentIsAggregatorRendering ==
  (QueryFinished /\ response.success) =>
    response.content =
      AggregatedResponse(analyze_query(user_query), query_plan,
                         aggregate_batch_results(results, query_plan.output_format)).content

(***************************************************************************)
(* Properties of per-province retrieval (SpecRetrieve)                     *)
(***************************************************************************)
\* the provinces a per-province retrieval is made for
TargetProvinces(request) ==
  IF request.op = "retrieve_for_all_provinces" THEN PROVINCES ELSE request.provinces

\* the per-province quota the configuration gives the request
TargetQuota(cfg, request) ==
  CASE request.op = "retrieve_for_all_provinces" -> cfg.all_provinces.top_k_per_province
    [] request.op = "retrieve_for_specific_provinces" ->
         SpecificQuota(cfg, request.provinces)
    [] OTHER -> cfg.comparison.top_k_per_province

\* a per-province retrieval has returned
PerProvinceRetrieved ==
  /\ pc = "retrieved"
  /\ arg.request.op \in {"retrieve_for_all_provinces", "retrieve_for_specific_provinces",
                         "retrieve_for_comparison"}
  /\ TargetProvinces(arg.request) # <<>>

\* the number of chunks of a province in a list of chunks
ChunksOf(chunks, province) ==
  Cardinality({i \in 1..Len(chunks) : chunks[i].province = province})

\* C20: in per-province retrieval the index is searched once for each target
\* province, filtered to that province, for quota * f candidates with f 3 or
\* 4; the result keeps at most quota chunks of each target province, and
\* every chunk of the result belongs to a target province.
C20_QuotaPerTargetProvince ==
  PerProvinceRetrieved =>
    LET targets == TargetProvinces(arg.request)
        quota == TargetQuota(arg.config, arg.request)
    IN /\ Len(ret.searches) = Len(targets)
       /\ \A i \in 1..Len(targets) :
            /\ ret.searches[i].province_filter = targets[i]
            /\ ret.searches[i].top_k \in {quota * 3, quota * 4}
            /\ ChunksOf(ret.result.chunks, targets[i]) <= quota
       /\ \A i \in 1..Len(ret.result.chunks) :
            ret.result.chunks[i].province \in Range(targets)

\* two provinces are asked for with a quota of one: the store has two chunks
\* of the first, three candidates are searched for and one chunk is kept
C20_Witness ==
  /\ PerProvinceRetrieved
  /\ arg.request.op = "retrieve_for_specific_provinces"
  /\ arg.request.provinces = << "Beijing", "Tianjin" >>
  /\ TargetQuota(arg.config, arg.request) = 1
  /\ ret.searches[1].top_k = 3
  /\ ChunksOf(SampleChunks, "Beijing") = 2
  /\ ChunksOf(ret.result.chunks, "Beijing") = 1
  /\ ChunksOf(ret.result.chunks, "Tianjin") = 1

(***************************************************************************)
(* Properties of the adjacency expansion (SpecGeneral)                     *)
(***************************************************************************)
\* the chunk is a neighbour of the hit in the hit's report
NextTo(chunk, hit) ==
  /\ chunk.source = hit.source
  /\ chunk.chunk_id - hit.chunk_id \in {-1, 1}

\* C21: in general retrieval with adjacency expansion the result has no two
\* chunks with the same (source, start_pos, content prefix) key, and every
\* chunk of it is a primary hit or a chunk of the same report whose sequence
\* index differs by exactly 1 from a primary hit's.
C21_HitsAndNeighboursOnce ==
  pc = "general_done" =>
    /\ \A i, j \in 1..Len(ret.result.chunks) :
         i # j => ChunkKey(ret.result.chunks[i]) # ChunkKey(ret.result.chunks[j])
    /\ \A i \in 1..Len(ret.result.chunks) :
         \E h \in 1..Len(ret.primary_chunks) :
           \/ ChunkKey(ret.result.chunks[i]) = ChunkKey(ret.primary_chunks[h])
           \/ NextTo(ret.result.chunks[i], ret.primary_chunks[h])

\* a chunk that was not a hit came in as a neighbour, and a chunk two places
\* from the nearest hit of its report stayed out
C21_Witness ==
  /\ pc = "general_done"
  /\ ret.result.total_chars <= arg.max_context_chars
  /\ \E i \in 1..Len(ret.result.chunks) :
       ret.result.chunks[i] \notin Range(ret.primary_chunks)
  /\ \E k \in 1..Len(ReportStore) :
       /\ ReportStore[k] \notin Range(ret.result.chunks)
       /\ \E h \in 1..Len(ret.primary_chunks) :
            /\ ret.primary_chunks[h].source = ReportStore[k].source
            /\ ReportStore[k].chunk_id - ret.primary_chunks[h].chunk_id = 2

(***************************************************************************)
(* Properties of parsing (SpecParse)                                       *)
(***************************************************************************)
\* the line has the province's name, or an alias of it, and a colon after it
NamedBeforeColon(line, province) ==
  \E c \in 1..Len(line) :
    /\ line[c] \in Colons
    /\ \/ IsSubstring(ProvinceChars(province), SubSeq(line, 1, c - 1))
       \/ \E a \in 1..Len(province_aliases) :
            /\ province_aliases[a].full = province
            /\ province_aliases[a].alias \in Range(SubSeq(line, 1, c - 1))

\* C22: while parsing batch output a line introduces a province only if it
\* contains a recognised province name or alias followed by a colon, so every
\* province of the parsed mapping is named before a colon on some line of
\* the content.
C22_ProvinceNeedsColonLine ==
  pc = "parsed" =>
    \A k \in 1..Len(ret.province_info) :
      \E i \in 1..Len(SplitOn(arg.content, 10)) :
        NamedBeforeColon(SplitOn(arg.content, 10)[i], ret.province_info[k].province)

\* the pieces of a line: the line without its province prefix, split on the
\* first separator of the priority list that occurs in it, each piece stripped
LinePieces(clean_line) ==
  LET present == {i \in 1..Len(separators) : separators[i] \in Range(clean_line)}
      parts == IF present = {} THEN << clean_line >>
               ELSE SplitOn(clean_line, separators[MinOf(present)])
  IN [i \in 1..Len(parts) |-> Strip(parts[i])]

LongPieces(line) ==
  SelectSeq(LinePieces(StripProvincePrefixes(line, 1)), LAMBDA piece : Len(piece) > 3)

\* C23, as stated: the line is split on the first separator of the priority
\* list that occurs in it, and every resulting piece longer than 3 characters
\* is kept as an item, the shorter ones being dropped.
C23_EveryLongPieceKept ==
  pc = "extracted" => ret.targets = LongPieces(arg.line)

\* C23, amended: the line is split on the first separator of the priority
\* list that occurs in it; the pieces longer than 3 characters lose a leading
\* number, and such a piece is kept as an item only if it then contains a
\* target keyword or is longer than 10 characters.
C23_LongPiecesFiltered ==
  pc = "extracted" =>
    ret.targets =
      SelectSeq([i \in 1..Len(LongPieces(arg.line)) |->
                   StripNumbering(LongPieces(arg.line)[i])],
                LAMBDA item : HasTargetKeyword(item) \/ Len(item) > 10)

\* a line of two pieces longer than 3 characters, of which the one without
\* a target keyword is dropped
C23_Witness ==
  /\ pc = "extracted"
  /\ Len(LongPieces(arg.line)) = 2
  /\ HasTargetKeyword(LongPieces(arg.line)[1])
  /\ ~HasTargetKeyword(LongPieces(arg.line)[2])
  /\ ret.targets = << LongPieces(arg.line)[1] >>

(***************************************************************************)
(* Properties of the length optimisation (SpecOptimize)                    *)
(***************************************************************************)
\* the lines of the content that name a province, in order
ProvinceLines(content) == SelectSeq(SplitOn(content, 10), HasProvinceName)

\* `line` cut short and ended by "..."
CutShort(cut, line) ==
  /\ Len(cut) >= 3
  /\ SubSeq(cut, Len(cut) - 2, Len(cut)) = <<46, 46, 46>>
  /\ IsPrefix(SubSeq(cut, 1, Len(cut) - 3), line)

\* the lines are the first lines of `whole`, the last one possibly cut short
WholeLinesThenCut(lines, whole) ==
  /\ Len(lines) <= Len(whole)
  /\ \A i \in 1..Len(lines) :
       \/ lines[i] = whole[i]
       \/ i = Len(lines) /\ CutShort(lines[i], whole[i])

\* C24: when the content exceeds the budget of max_tokens * 1.5 characters,
\* optimize_for_token_limit returns content no longer than the budget, made
\* of whole province lines in their original order, only the last included
\* line possibly cut short and ended by an ellipsis.
C24_OptimizedWithinBudget ==
  (pc = "optimized" /\ 2 * Len(arg.content) > 3 * arg.max_tokens) =>
    /\ ret.raised = "none"
    /\ 2 * Len(ret.content) <= 3 * arg.max_tokens
    /\ \/ ret.content = <<>>
       \/ WholeLinesThenCut(SplitOn(ret.content, 10), ProvinceLines(arg.content))

SameSimilarity(s, t) == s.common * t.max_length = t.common * s.max_length

\* C26: the similarity used for deduplication is symmetric: for all items
\* a and b of a deduplicated list, similarity(a, b) = similarity(b, a).
C26_SimilaritySymmetric ==
  pc = "dedup_once" =>
    \A a, b \in Range(arg.targets) :
      SameSimilarity(_calculate_similarity(a, b), _calculate_similarity(b, a))

\* the most recent setup_system call returned True
LastSetupSucceeded == ret # <<>> /\ ret.returned

\* C27: is_ready is false initially; a query before a successful setup
\* returns the "not ready" error without a plan, a retrieval or a completion
\* call; and is_ready is true only if the most recent setup_system call
\* returned True (index built and saved or loaded, connection test passed).
C27_ReadyOnlyAfterLastSetup ==
  /\ ret = <<>> => ~is_ready
  /\ response = FailureResponse("not_ready", <<>>) =>
       (query_plan = NoPlan /\ results = <<>> /\ attempted = <<>>)
  /\ is_ready =>
       (LastSetupSucceeded /\ ret.index /\ ret.connection = "passed")

\* the batches _execute_single_batch hands to smart_retrieve with their query
SmartRetrieveBatches(plan) ==
  {i \in 1..Len(plan.batches) :
     plan.batches[i].type \notin {"province_group", "province_chunk"}}

\* C28: the two intent classifiers agree: the intent type the retriever
\* derives inside smart_retrieve from a batch's query equals the type the
\* router assigned to that query when it planned the batch.
C28_ClassifiersAgree ==
  pc = "plan_done" =>
    \A i \in SmartRetrieveBatches(ret.query_plan) :
      identify_query_intent(ret.query_plan.batches[i].query).type
        = ret.query_plan.query_type

\* the per-province items of a list of batch results, after deduplication
DeduplicatedContents(batch_results) ==
  DeduplicateAll(CollectProvinceContents(SelectSeq(batch_results, LAMBDA r : r.success),
                                         <<>>))

\* C29: aggregate_batch_results returns an AggregatedResult and never
\* raises, for every list of batch results and every output format,
\* successful batches without a parsed province included; total_targets is
\* the sum of the per-province item counts after deduplication and the
\* province list is sorted, duplicate-free and made of canonical names.
C29_AlwaysAnAggregatedResult ==
  pc = "aggregated" =>
    /\ ret.raised = "none"
    /\ ret.format_type = arg.output_format
    /\ ret.total_targets = TotalTargets(DeduplicatedContents(arg.batch_results))
    /\ ret.provinces = SortProvinces(Range(ret.provinces))
    /\ Cardinality(Range(ret.provinces)) = Len(ret.provinces)
    /\ Range(ret.provinces) \subseteq Range(PROVINCES)

\* the attempts made for query k are failures up to a last one, they are at
\* most max_retries, and the recorded response is that of the last attempt:
\* the first success, or the failure of attempt number max_retries
AttemptsThenResponse(k) ==
  LET made == ret.attempts[k]
  IN /\ Len(made) \in 1..arg.max_retries
     /\ \A a \in 1..(Len(made) - 1) : ~made[a]
     /\ ~made[Len(made)] => Len(made) = arg.max_retries
     /\ ret.results[k] = ChatResponse(arg.queries[k], made[Len(made)], Len(made))

OneResponsePerQuery ==
  /\ Len(ret.results) = Len(arg.queries)
  /\ \A k \in 1..Len(arg.queries) : AttemptsThenResponse(k)

\* C30 as stated: batch_process terminates and returns exactly one response
\* per query, in query order, for every max_retries >= 0; each query is
\* attempted at most max_retries times, attempts stop at the first success,
\* and the recorded response is the first success or else the last failure.
C30_OneResponsePerQueryAnyRetries ==
  pc = "batch_processed" => OneResponsePerQuery

\* what batch_process does: it terminates; with max_retries >= 1 it returns
\* one response per query as above; with max_retries = 0 it makes no attempt
\* and returns an empty list
BatchProcessWithRetries ==
  /\ [](pc = "batch_processed" =>
          IF arg.max_retries >= 1 THEN OneResponsePerQuery
          ELSE /\ ret.results = <<>>
               /\ \A k \in 1..Len(arg.queries) : ret.attempts[k] = <<>>)
  /\ <>(pc = "batch_processed")

\* a call that retried the first query to the last attempt and recorded its
\* failure, then recorded the second query's success at a retry
RetriedThenRecorded ==
  /\ pc = "batch_processed"
  /\ Len(arg.queries) = 2
  /\ arg.max_retries >= 2
  /\ ~ret.results[1].success /\ ret.results[1].attempt = arg.max_retries
  /\ ret.results[2].success /\ ret.results[2].attempt = 2

====
